---- MODULE Spec2Model ----
(***************************************************************************)
(* Execution core of py-evm: the journaled world state, call/create        *)
(* frames, and the two transaction pipelines found in the sources          *)
(* (evm/vm/evm.py:_apply_transaction and                                    *)
(* evm/vm/forks/frontier/__init__.py:_execute_frontier_transaction).        *)
(*                                                                         *)
(* Byte strings are sequences of naturals.  Addresses are byte strings.    *)
(* A hash (keccak, contract-address derivation) is modelled as an          *)
(* injective tagging of its input, except for one explicit collision.      *)
(***************************************************************************)
EXTENDS Integers, Sequences, FiniteSets, TLC

VARIABLES
    pc,          \* position of the transaction handler
    pipeline,    \* which handler runs the transaction: "evm" or "frontier"
    tx,          \* the transaction being applied
    state,       \* BaseState: [state_root, db]
    frames,      \* stack of live frames, innermost last
    result,      \* <<>> or <<the finished top-level computation>>
    log_counter, \* TransactionContext: next log counter
    steps,       \* number of SSTORE, CALL and CREATE executions so far
    ghost,       \* history: pre-state, emitted logs, frame outcomes
    held         \* a direct user of BaseState (SpecState): the snapshots it holds

vars == <<pc, pipeline, tx, state, frames, result, log_counter, steps, ghost, held>>

----------------------------------------------------------------------------
(* Bounds of the model *)

MaxSteps == 2      \* SSTORE, CALL and CREATE executions per transaction
MaxLogs  == 3      \* LOG executions per transaction
MaxDepth == 3      \* live frames nested at once
MaxSnapshots == 3  \* snapshot() calls in SpecState
MaxWrites == 3     \* writes in SpecState
MaxBlock == 5      \* highest block number asked for in SpecChain
MaxExtends == 3    \* extend_memory calls in a frame of SpecMemory
MaxTxs == 3        \* transactions applied to the block of SpecBlock
MaxOps == 3        \* operations on the State of SpecAccounts
MaxTxList == 2     \* transactions in a Transactions message of SpecTxPool
MaxChain == 5      \* blocks of the canonical chain of SpecUncles, genesis included

----------------------------------------------------------------------------
(* Program constants *)

STACK_DEPTH_LIMIT   == 1024
GAS_TX              == 21000
GAS_TXCREATE        == 32000
GAS_TXDATAZERO      == 4
GAS_TXDATANONZERO   == 68
GAS_SSET            == 20000
GAS_SRESET          == 5000
REFUND_SCLEAR       == 15000
REFUND_SELFDESTRUCT == 24000
GAS_CODEDEPOSIT     == 200
GAS_LOG             == 375
GAS_CALL            == 40
GAS_CREATE          == 32000
GAS_CALL_EIP150     == 700
GAS_IDENTITY        == 15
GAS_IDENTITYWORD    == 3
GAS_MEMORY          == 3
GAS_MEMORY_QUADRATIC_DENOMINATOR == 512

----------------------------------------------------------------------------
(* Addresses and byte strings *)

SENDER    == <<1>>     \* externally owned, funds the transactions
SENDER2   == <<2>>     \* externally owned; its first contract address is taken
ADDR_A    == <<3>>     \* contract, slot 0 set, holds wei
ADDR_B    == <<4>>     \* contract, empty storage, no wei
COINBASE  == <<5>>
CREATE_CONTRACT_ADDRESS == <<>>
NoAddress == <<0>>     \* Python None for an address

CODE_A == <<96, 1>>
CODE_B == <<96, 2>>
INIT_CODE == <<96, 0>>

ZeroBytes(b) == \A i \in DOMAIN b : b[i] = 0

\* pad32: left-pad with zero bytes to 32 bytes
pad32(b) ==
    IF Len(b) >= 32 THEN b
    ELSE [i \in 1..32 |-> IF i <= 32 - Len(b) THEN 0 ELSE b[i - (32 - Len(b))]]

\* bytes.strip(b'\x00') is empty
strip_is_empty(b) == ZeroBytes(b)

\* keccak: an injective tagging of the input
keccak(b) == <<255>> \o b
EMPTY_SHA3 == keccak(<<>>)
BLANK_ROOT_HASH == [s \in {} |-> <<>>]

\* generate_contract_address(sender, nonce): injective, but for the one
\* collision the Frontier pipeline guards against
TAKEN_ADDRESS == <<0, 2, 0>>
generate_contract_address(sender, nonce) == <<0>> \o sender \o <<nonce>>

\* the first address a contract created by ADDR_A would create at: taken too
TAKEN_BY_NESTED ==
    generate_contract_address(generate_contract_address(ADDR_A, 0), 0)

----------------------------------------------------------------------------
(* JournalDB: a key-value store under a journal of changesets.            *)
(* db = [kv, journal, next_id]; a changeset is [id, sets, dels].           *)

NotFound == <<-1>>

EmptyMap == [k \in {} |-> <<>>]

EmptyDB == [kv |-> EmptyMap, journal |-> <<>>, next_id |-> 1]

RECURSIVE journal_lookup(_, _, _, _)
journal_lookup(kv, journal, i, key) ==
    IF i = 0
    THEN IF key \in DOMAIN kv THEN kv[key] ELSE NotFound
    ELSE IF key \in journal[i].dels THEN NotFound
    ELSE IF key \in DOMAIN journal[i].sets THEN journal[i].sets[key]
    ELSE journal_lookup(kv, journal, i - 1, key)

\* get: the topmost pending value of the key, KeyError (NotFound) if absent
db_get(db, key) == journal_lookup(db.kv, db.journal, Len(db.journal), key)

db_exists(db, key) == db_get(db, key) # NotFound

db_set(db, key, value) ==
    IF db.journal = <<>>
    THEN [db EXCEPT !.kv = (key :> value) @@ @]
    ELSE [db EXCEPT !.journal[Len(db.journal)] =
              [@ EXCEPT !.sets = (key :> value) @@ @, !.dels = @ \ {key}]]

db_delete_without_tombstone(db, key) ==
    IF db.journal = <<>>
    THEN [db EXCEPT !.kv = [k \in DOMAIN @ \ {key} |-> @[k]]]
    ELSE [db EXCEPT !.journal[Len(db.journal)] =
              [@ EXCEPT !.sets = [k \in DOMAIN @ \ {key} |-> @[k]]]]

\* delete: a tombstone in the open changeset hides what lies below
db_delete(db, key) ==
    IF db.journal = <<>>
    THEN [db EXCEPT !.kv = [k \in DOMAIN @ \ {key} |-> @[k]]]
    ELSE [db EXCEPT !.journal[Len(db.journal)] =
              [@ EXCEPT !.sets = [k \in DOMAIN @ \ {key} |-> @[k]],
                        !.dels = @ \cup {key}]]

\* record(): open a new changeset; its id is what record() returns
record_id(db) == db.next_id

record(db) ==
    [db EXCEPT !.journal = Append(@, [id |-> db.next_id, sets |-> EmptyMap, dels |-> {}]),
               !.next_id = @ + 1]

has_changeset(db, id) == \E i \in DOMAIN db.journal : db.journal[i].id = id

changeset_pos(db, id) == CHOOSE i \in DOMAIN db.journal : db.journal[i].id = id

\* discard(id): drop the changeset and every changeset recorded after it
discard(db, id) ==
    [db EXCEPT !.journal = SubSeq(@, 1, changeset_pos(db, id) - 1)]

\* JournalDB.snapshot() of the journal tests: what it returns, what it leaves
journal_snapshot_id(db) == record_id(db)

journal_snapshot(db) == record(db)

journal_revert_top_only(db, id) ==
    IF ~has_changeset(db, id) THEN db
    ELSE [db EXCEPT !.journal =
             Append(SubSeq(@, 1, Len(@) - 1), [id |-> id, sets |-> EmptyMap, dels |-> {}])]

journal_revert_once(db, id) ==
    IF ~has_changeset(db, id) THEN db
    ELSE discard(db, id)

\* JournalDB.revert(snapshot) of the journal tests: every entry journalled
\* since the snapshot is dropped; the snapshot stays valid
journal_revert(db, id) ==
    IF ~has_changeset(db, id) THEN db
    ELSE [discard(db, id) EXCEPT
             !.journal = Append(@, [id |-> id, sets |-> EmptyMap, dels |-> {}])]

merge_changeset(lower, upper) ==
    [id   |-> lower.id,
     sets |-> upper.sets @@ [k \in DOMAIN lower.sets \ upper.dels |-> lower.sets[k]],
     dels |-> (lower.dels \ DOMAIN upper.sets) \cup upper.dels]

apply_to_kv(kv, cs) ==
    cs.sets @@ [k \in DOMAIN kv \ cs.dels |-> kv[k]]

RECURSIVE flatten_from(_, _)
\* the changesets from position p to the top, merged into one
flatten_from(journal, p) ==
    IF p = Len(journal) THEN journal[p]
    ELSE merge_changeset(journal[p], flatten_from(journal, p + 1))

\* commit(id): merge the changeset and every later one into what lies below
commit_changeset(db, id) ==
    LET p == changeset_pos(db, id)
        merged == flatten_from(db.journal, p)
    IN  IF p = 1
        THEN [db EXCEPT !.kv = apply_to_kv(@, merged), !.journal = <<>>]
        ELSE [db EXCEPT !.journal =
                 Append(SubSeq(@, 1, p - 2), merge_changeset(@[p - 1], merged))]

----------------------------------------------------------------------------
(* BaseState (evm/vm/state.py): snapshot / revert / commit                  *)
(* st = [state_root, db]; state_root stands for the trie it is the hash of: *)
(* the map from the existing addresses to their accounts.                   *)

\* the value snapshot() returns
snapshot(st) == <<st.state_root, record_id(st.db)>>

\* the state snapshot() leaves behind (account_db.record())
snapshot_state(st) == [st EXCEPT !.db = record(@)]

revert_no_discard(st, snap) == [st EXCEPT !.state_root = snap[1]]

revert(st, snap) ==
    [st EXCEPT !.state_root = snap[1], !.db = discard(@, snap[2])]

commit(st, snap) == [st EXCEPT !.db = commit_changeset(@, snap[2])]

----------------------------------------------------------------------------
(* State (evm/state.py): the account layer                                  *)

Account == [nonce |-> 0, balance |-> 0, storage |-> BLANK_ROOT_HASH, code_hash |-> EMPTY_SHA3]

account_exists(st, address) == address \in DOMAIN st.state_root

get_account(st, address) ==
    IF address \in DOMAIN st.state_root THEN st.state_root[address] ELSE Account

put_account(st, address, account) ==
    [st EXCEPT !.state_root = (address :> account) @@ @]

get_balance(st, address) == get_account(st, address).balance

set_balance(st, address, balance) ==
    put_account(st, address, [get_account(st, address) EXCEPT !.balance = balance])

delta_balance(st, address, delta) ==
    set_balance(st, address, get_balance(st, address) + delta)

get_nonce(st, address) == get_account(st, address).nonce

set_nonce(st, address, nonce) ==
    put_account(st, address, [get_account(st, address) EXCEPT !.nonce = nonce])

increment_nonce(st, address) == set_nonce(st, address, get_nonce(st, address) + 1)

\* rlp.encode / rlp.decode of a byte string shorter than 56 bytes
rlp_encode(b) ==
    IF Len(b) = 1 /\ b[1] < 128 THEN b ELSE <<128 + Len(b)>> \o b

rlp_decode(r) ==
    IF Len(r) = 1 /\ r[1] < 128 THEN r ELSE Tail(r)

get_storage(st, address, slot) ==
    LET storage == get_account(st, address).storage
    IN  IF slot \in DOMAIN storage THEN rlp_decode(storage[slot]) ELSE <<>>

set_storage_keep_zero(st, address, slot, value) ==
    LET account == get_account(st, address)
        storage == (slot :> rlp_encode(value)) @@ account.storage
    IN  put_account(st, address, [account EXCEPT !.storage = storage])

set_storage(st, address, slot, value) ==
    LET account == get_account(st, address)
        storage == IF ~strip_is_empty(value)
                   THEN (slot :> rlp_encode(value)) @@ account.storage
                   ELSE [s \in DOMAIN account.storage \ {slot} |-> account.storage[s]]
    IN  put_account(st, address, [account EXCEPT !.storage = storage])

get_code(st, address) ==
    LET code == db_get(st.db, get_account(st, address).code_hash)
    IN  IF code = NotFound THEN <<>> ELSE code

\* set_code on an account that has code raises ValueError; callers are guarded
set_code(st, address, code) ==
    LET account == [get_account(st, address) EXCEPT !.code_hash = keccak(code)]
    IN  put_account([st EXCEPT !.db = db_set(@, keccak(code), code)], address, account)

\* del self.db[account.code_hash]: the code goes, whoever else has its hash;
\* a KeyError when the db holds no code under the hash
delete_code(st, address) ==
    LET account == get_account(st, address)
    IN  IF ~db_exists(st.db, account.code_hash) THEN st
        ELSE put_account([st EXCEPT !.db = db_delete(@, account.code_hash)], address,
                         [account EXCEPT !.code_hash = EMPTY_SHA3])

delete_storage(st, address) ==
    put_account(st, address, [get_account(st, address) EXCEPT !.storage = BLANK_ROOT_HASH])

delete_account(st, address) ==
    [st EXCEPT !.state_root = [a \in DOMAIN @ \ {address} |-> @[a]]]

account_has_code_or_nonce(st, address) ==
    get_nonce(st, address) # 0 \/ get_code(st, address) # <<>>

\* what can be read of the world: every existing account with its code
World(st) ==
    [a \in DOMAIN st.state_root |-> [account |-> st.state_root[a], code |-> get_code(st, a)]]

----------------------------------------------------------------------------
(* Message *)

Message(gas, to, sender, value, data, code, origin, depth, create_address) ==
    [gas |-> gas, to |-> to, sender |-> sender, value |-> value, data |-> data,
     code |-> code, origin |-> origin, depth |-> depth,
     create_address |-> create_address]

is_create_by_to_only(msg) == msg.to = CREATE_CONTRACT_ADDRESS

is_create(msg) ==
    msg.to = CREATE_CONTRACT_ADDRESS \/ msg.create_address # NoAddress

storage_address(msg) ==
    IF msg.create_address # NoAddress THEN msg.create_address ELSE msg.to

----------------------------------------------------------------------------
(* VM errors *)

NoError == [kind |-> "none", burns_gas |-> FALSE, erases_return_data |-> FALSE]

VMError(kind) == [kind |-> kind, burns_gas |-> TRUE, erases_return_data |-> TRUE]

----------------------------------------------------------------------------
(* Computation (evm/vm/computation.py): one frame *)

Computation(message, fid) ==
    [msg |-> message,
     gas_remaining |-> message.gas,       \* GasMeter(message.gas)
     gas_refunded |-> 0,
     children |-> <<>>,
     accounts_to_delete |-> <<>>,         \* dict, as its items in insertion order
     log_entries |-> <<>>,
     raw_output |-> <<>>,
     return_data |-> <<>>,
     error |-> NoError,
     fid |-> fid]

is_success(c) == c.error = NoError

is_error(c) == ~is_success(c)

should_burn_gas(c) == is_error(c) /\ c.error.burns_gas

should_erase_return_data(c) == is_error(c) /\ c.error.erases_return_data

output(c) == IF should_erase_return_data(c) THEN <<>> ELSE c.raw_output

RECURSIVE SumSeq(_)
SumSeq(s) == IF s = <<>> THEN 0 ELSE Head(s) + SumSeq(Tail(s))

RECURSIVE Concat(_)
\* itertools.chain(*s)
Concat(s) == IF s = <<>> THEN <<>> ELSE Head(s) \o Concat(Tail(s))

RECURSIVE insert_sorted(_, _)
insert_sorted(s, e) ==
    IF s = <<>> THEN <<e>>
    ELSE IF e[1] < Head(s)[1] THEN <<e>> \o s
    ELSE <<Head(s)>> \o insert_sorted(Tail(s), e)

RECURSIVE sorted(_)
\* sorted() of tuples whose first component is the (unique) log counter
sorted(s) == IF s = <<>> THEN <<>> ELSE insert_sorted(sorted(Tail(s)), Head(s))

RECURSIVE dict_items(_, _)
\* tuple(dict(pairs).items()): first occurrence fixes the position of a key,
\* last occurrence its value
dict_items(pairs, acc) ==
    IF pairs = <<>> THEN acc
    ELSE LET p == Head(pairs)
             known == \E i \in DOMAIN acc : acc[i][1] = p[1]
         IN  dict_items(Tail(pairs),
                        IF known
                        THEN [i \in DOMAIN acc |-> IF acc[i][1] = p[1] THEN p ELSE acc[i]]
                        ELSE Append(acc, p))

RECURSIVE get_accounts_for_deletion(_)
get_accounts_for_deletion_keep_errored(c) ==
    dict_items(
        c.accounts_to_delete \o
        Concat([i \in DOMAIN c.children |-> get_accounts_for_deletion(c.children[i])]),
        <<>>)

get_accounts_for_deletion(c) ==
    IF is_error(c) THEN <<>>
    ELSE dict_items(
            c.accounts_to_delete \o
            Concat([i \in DOMAIN c.children |-> get_accounts_for_deletion(c.children[i])]),
            <<>>)

RECURSIVE private_get_log_entries(_)
private_get_log_entries_unsorted(c) == 
    IF is_error(c) THEN <<>>
    ELSE c.log_entries \o
         Concat([i \in DOMAIN c.children |-> private_get_log_entries(c.children[i])])

private_get_log_entries_keep_errored(c) ==
    sorted(c.log_entries \o
           Concat([i \in DOMAIN c.children |-> private_get_log_entries(c.children[i])]))

private_get_log_entries(c) ==
    IF is_error(c) THEN <<>>
    ELSE sorted(c.log_entries \o
                Concat([i \in DOMAIN c.children |-> private_get_log_entries(c.children[i])]))

get_log_entries(c) ==
    LET logs == private_get_log_entries(c)
    IN  [i \in DOMAIN logs |-> Tail(logs[i])]

RECURSIVE get_gas_refund(_)
get_gas_refund_of_errored(c) ==
    c.gas_refunded +
    SumSeq([i \in DOMAIN c.children |-> get_gas_refund(c.children[i])])

get_gas_refund(c) ==
    IF is_error(c) THEN 0
    ELSE c.gas_refunded +
         SumSeq([i \in DOMAIN c.children |-> get_gas_refund(c.children[i])])

Max(a, b) == IF a > b THEN a ELSE b

Min(a, b) == IF a < b THEN a ELSE b

get_gas_used_of_meter(c) == Max(0, c.msg.gas - c.gas_remaining)

get_gas_used(c) ==
    IF should_burn_gas(c) THEN c.msg.gas
    ELSE Max(0, c.msg.gas - c.gas_remaining)

get_gas_remaining_meter(c) == c.gas_remaining

get_gas_remaining(c) ==
    IF should_burn_gas(c) THEN 0 ELSE c.gas_remaining

\* GasMeter
refund_gas(c, amount) == [c EXCEPT !.gas_refunded = @ + amount]

return_gas(c, amount) == [c EXCEPT !.gas_remaining = @ + amount]

\* __exit__ on a VMError: record it and zero the meter if it burns gas
exit_with_error(c, err) ==
    LET e == [c EXCEPT !.error = err]
    IN  IF should_burn_gas(e) THEN [e EXCEPT !.gas_remaining = 0] ELSE e

\* consume_gas: OutOfGas reaches the frame boundary when the meter cannot pay
consume_gas(c, amount) ==
    IF amount > c.gas_remaining
    THEN exit_with_error(c, VMError("OutOfGas"))
    ELSE [c EXCEPT !.gas_remaining = @ - amount]

add_log_entry(c, counter, account, topics, data) ==
    [c EXCEPT !.log_entries = Append(@, <<counter, account, topics, data>>)]

\* raises ValueError if the storage address is already registered: a frame
\* halts at its first SELFDESTRUCT, so it registers at most once
register_account_for_deletion(c, beneficiary) ==
    [c EXCEPT !.accounts_to_delete = Append(@, <<storage_address(c.msg), beneficiary>>)]

add_child_computation_create_returns_code(c, child) ==
    LET rd == IF is_error(child)
              THEN IF is_create(child.msg) THEN output(child)
                   ELSE IF should_burn_gas(child) THEN <<>>
                   ELSE output(child)
              ELSE output(child)
    IN  [c EXCEPT !.return_data = rd, !.children = Append(@, child)]

add_child_computation_prepend(c, child) ==
    LET rd == IF is_error(child)
              THEN IF is_create(child.msg) THEN output(child)
                   ELSE IF should_burn_gas(child) THEN <<>>
                   ELSE output(child)
              ELSE IF is_create(child.msg) THEN <<>>
                   ELSE output(child)
    IN  [c EXCEPT !.return_data = rd, !.children = <<child>> \o @]

add_child_computation(c, child) ==
    LET rd == IF is_error(child)
              THEN IF is_create(child.msg) THEN output(child)
                   ELSE IF should_burn_gas(child) THEN <<>>
                   ELSE output(child)
              ELSE IF is_create(child.msg) THEN <<>>
                   ELSE output(child)
    IN  [c EXCEPT !.return_data = rd, !.children = Append(@, child)]

prepare_child_message(c, gas, to, value, data, code, create_address) ==
    Message(gas, to, storage_address(c.msg), value, data, code,
            c.msg.origin, c.msg.depth + 1, create_address)

----------------------------------------------------------------------------
(* Frames.  A live frame is [comp, snap, is_create, outer_snap, entry]: the *)
(* computation, the snapshot _apply_message took on entry, for a create     *)
(* frame the snapshot _apply_create_message took before it, and the world   *)
(* as it could be read when the frame was entered.                          *)
(* A configuration cfg = [frames, state, result, ghost, raised, crashed]    *)
(* is what the frame operators transform.                                   *)

NoSnap == <<EmptyMap, 0>>

apply_message_enter_depth_off_by_one(st, msg) ==
    LET snap == snapshot(st)
        st1 == snapshot_state(st)
        sender_balance == get_balance(st1, msg.sender)
        st2 == set_balance(st1, msg.sender, sender_balance - msg.value)
        st3 == set_balance(st2, storage_address(msg),
                           get_balance(st2, storage_address(msg)) + msg.value)
    IN  IF msg.depth > STACK_DEPTH_LIMIT
        THEN [state |-> st1, snap |-> snap, raised |-> VMError("StackDepthLimit")]
        ELSE IF msg.value # 0
        THEN IF sender_balance < msg.value
             THEN [state |-> st1, snap |-> snap, raised |-> VMError("InsufficientFunds")]
             ELSE [state |-> st3, snap |-> snap, raised |-> NoError]
        ELSE [state |-> st1, snap |-> snap, raised |-> NoError]

apply_message_enter_stale_recipient(st, msg) ==
    LET snap == snapshot(st)
        st1 == snapshot_state(st)
        sender_balance == get_balance(st1, msg.sender)
        st2 == set_balance(st1, msg.sender, sender_balance - msg.value)
        st3 == set_balance(st2, storage_address(msg),
                           get_balance(st1, storage_address(msg)) + msg.value)
    IN  IF msg.depth >= STACK_DEPTH_LIMIT
        THEN [state |-> st1, snap |-> snap, raised |-> VMError("StackDepthLimit")]
        ELSE IF msg.value # 0
        THEN IF sender_balance < msg.value
             THEN [state |-> st1, snap |-> snap, raised |-> VMError("InsufficientFunds")]
             ELSE [state |-> st3, snap |-> snap, raised |-> NoError]
        ELSE [state |-> st1, snap |-> snap, raised |-> NoError]

\* _apply_message up to apply_computation: snapshot, depth check, value transfer
apply_message_enter(st, msg) ==
    LET snap == snapshot(st)
        st1 == snapshot_state(st)
        sender_balance == get_balance(st1, msg.sender)
        st2 == set_balance(st1, msg.sender, sender_balance - msg.value)
        st3 == set_balance(st2, storage_address(msg),
                           get_balance(st2, storage_address(msg)) + msg.value)
    IN  IF msg.depth >= STACK_DEPTH_LIMIT
        THEN [state |-> st1, snap |-> snap, raised |-> VMError("StackDepthLimit")]
        ELSE IF msg.value # 0
        THEN IF sender_balance < msg.value
             THEN [state |-> st1, snap |-> snap, raised |-> VMError("InsufficientFunds")]
             ELSE [state |-> st3, snap |-> snap, raised |-> NoError]
        ELSE [state |-> st1, snap |-> snap, raised |-> NoError]

apply_message_exit_no_revert(st, snap, c) == st

\* _apply_message after apply_computation: revert on error
apply_message_exit(st, snap, c) ==
    IF is_error(c) THEN revert(st, snap) ELSE st

apply_create_message_exit_keep_writes(st, outer_snap, c) ==
    LET st1 == IF c.msg.sender # c.msg.origin
               THEN increment_nonce(st, c.msg.sender) ELSE st
        contract_code == output(c)
        cost == Len(contract_code) * GAS_CODEDEPOSIT
        target == storage_address(c.msg)
    IN  IF is_error(c) THEN [state |-> st1, comp |-> c, crashed |-> FALSE]
        ELSE IF contract_code = <<>> THEN [state |-> st1, comp |-> c, crashed |-> FALSE]
        ELSE IF cost > c.gas_remaining
        THEN [state |-> st1,
              comp |-> [c EXCEPT !.error = VMError("OutOfGas")],
              crashed |-> FALSE]
        ELSE IF get_account(st1, target).code_hash # EMPTY_SHA3
        THEN [state |-> st1, comp |-> consume_gas(c, cost), crashed |-> TRUE]
        ELSE [state |-> set_code(st1, target, contract_code),
              comp |-> consume_gas(c, cost), crashed |-> FALSE]

\* _apply_create_message after apply_message: nonce, code deposit
apply_create_message_exit(st, outer_snap, c) ==
    LET st1 == IF c.msg.sender # c.msg.origin
               THEN increment_nonce(st, c.msg.sender) ELSE st
        contract_code == output(c)
        cost == Len(contract_code) * GAS_CODEDEPOSIT
        target == storage_address(c.msg)
    IN  IF is_error(c) THEN [state |-> st1, comp |-> c, crashed |-> FALSE]
        ELSE IF contract_code = <<>> THEN [state |-> st1, comp |-> c, crashed |-> FALSE]
        ELSE IF cost > c.gas_remaining
        THEN [state |-> revert(st1, outer_snap),
              comp |-> [c EXCEPT !.error = VMError("OutOfGas")],
              crashed |-> FALSE]
        ELSE IF get_account(st1, target).code_hash # EMPTY_SHA3
        THEN [state |-> st1, comp |-> consume_gas(c, cost), crashed |-> TRUE]
        ELSE [state |-> set_code(st1, target, contract_code),
              comp |-> consume_gas(c, cost), crashed |-> FALSE]

\* the tail of CALL / CREATE in the parent once the child has returned
receive_child(parent, child) ==
    LET p == add_child_computation(parent, child)
    IN  IF should_burn_gas(child) THEN p
        ELSE return_gas(p, get_gas_remaining(child))

\* the top frame's computation is complete: leave the frame
Finish(cfg) ==
    LET n == Len(cfg.frames)
        f == cfg.frames[n]
        st1 == apply_message_exit(cfg.state, f.snap, f.comp)
        cr == IF f.is_create
              THEN apply_create_message_exit(st1, f.outer_snap, f.comp)
              ELSE [state |-> st1, comp |-> f.comp, crashed |-> FALSE]
        below == SubSeq(cfg.frames, 1, n - 1)
        ex == [fid |-> f.comp.fid, errored |-> is_error(cr.comp),
               is_create |-> f.is_create, entry |-> f.entry, after |-> World(cr.state),
               ran |-> f.comp, comp |-> cr.comp]
        gh == IF is_error(cr.comp)
              THEN [cfg.ghost EXCEPT !.failed = @ \cup {cr.comp.fid}, !.exit = ex]
              ELSE [cfg.ghost EXCEPT !.exit = ex]
    IN  IF cr.crashed
        THEN [cfg EXCEPT !.state = cr.state, !.crashed = TRUE, !.frames = <<>>]
        ELSE IF n = 1
        THEN [cfg EXCEPT !.state = cr.state, !.frames = <<>>,
                         !.result = <<cr.comp>>, !.ghost = gh]
        ELSE [cfg EXCEPT !.state = cr.state, !.ghost = gh,
                         !.frames = [below EXCEPT ![n - 1].comp =
                                        receive_child(@, cr.comp)]]

\* the top frame's opcode raised a VMError
Fail(cfg, err) ==
    Finish([cfg EXCEPT !.frames[Len(cfg.frames)].comp = exit_with_error(@, err)])

\* apply_message / apply_create_message on msg, entered from the top frame
\* (or from the transaction when there is no frame)
Enter(cfg, msg, create) ==
    LET st0 == IF create THEN snapshot_state(cfg.state) ELSE cfg.state
        outer == IF create THEN snapshot(cfg.state) ELSE NoSnap
        ent == apply_message_enter(st0, msg)
        fid == cfg.ghost.nframes + 1
        parent_fid == IF cfg.frames = <<>> THEN 0
                      ELSE cfg.frames[Len(cfg.frames)].comp.fid
        frame == [comp |-> Computation(msg, fid), snap |-> ent.snap,
                  is_create |-> create, outer_snap |-> outer,
                  entry |-> World(cfg.state)]
        moved == IF msg.value # 0
                 THEN <<[fid |-> fid, from |-> msg.sender, to |-> storage_address(msg),
                         value |-> msg.value]>>
                 ELSE <<>>
        app == [msg |-> msg, raised |-> ent.raised,
                before |-> cfg.state.state_root, after |-> ent.state.state_root]
        cfg1 == [cfg EXCEPT !.state = ent.state,
                            !.frames = Append(@, frame),
                            !.ghost.nframes = fid,
                            !.ghost.parent = Append(@, parent_fid),
                            !.ghost.transfers = @ \o moved,
                            !.ghost.applied = app]
    IN  IF ent.raised # NoError
        THEN IF cfg.frames = <<>>
             THEN [cfg EXCEPT !.state = ent.state, !.raised = ent.raised,
                              !.ghost.applied = app]
             ELSE Fail([cfg EXCEPT !.state = ent.state, !.ghost.applied = app,
                                   !.ghost.blamed = @ \cup {parent_fid}],
                       ent.raised)
        ELSE IF msg.code = <<>> THEN Finish(cfg1)
        ELSE cfg1

sstore_handler_writes_first(st, c, slot, value) ==
    LET address == storage_address(c.msg)
        padded_slot == pad32(slot)
        current_value == get_storage(st, address, padded_slot)
        is_currently_empty == strip_is_empty(current_value)
        is_going_to_be_empty == strip_is_empty(value)
        gas_refund == IF is_currently_empty THEN 0
                      ELSE IF is_going_to_be_empty THEN REFUND_SCLEAR
                      ELSE 0
        gas_cost == IF is_currently_empty /\ is_going_to_be_empty THEN GAS_SRESET
                    ELSE IF is_currently_empty THEN GAS_SSET
                    ELSE GAS_SRESET
        c1 == IF gas_refund # 0 THEN refund_gas(c, gas_refund) ELSE c
    IN  [comp |-> consume_gas(c1, gas_cost),
         state |-> set_storage(st, address, padded_slot, value)]

\* sstore (evm/logic/storage.py) in a frame: the computation and the state it
\* leaves; consume_gas raises OutOfGas
sstore_handler(st, c, slot, value) ==
    LET address == storage_address(c.msg)
        padded_slot == pad32(slot)
        current_value == get_storage(st, address, padded_slot)
        is_currently_empty == strip_is_empty(current_value)
        is_going_to_be_empty == strip_is_empty(value)
        gas_refund == IF is_currently_empty THEN 0
                      ELSE IF is_going_to_be_empty THEN REFUND_SCLEAR
                      ELSE 0
        gas_cost == IF is_currently_empty /\ is_going_to_be_empty THEN GAS_SRESET
                    ELSE IF is_currently_empty THEN GAS_SSET
                    ELSE GAS_SRESET
        c1 == consume_gas(c, gas_cost)
        c2 == IF gas_refund # 0 THEN refund_gas(c1, gas_refund) ELSE c1
    IN  IF is_error(c1)
        THEN [comp |-> c1, state |-> st]
        ELSE [comp |-> c2, state |-> set_storage(st, address, padded_slot, value)]

sstore_refund_on_any_clear(cfg, slot, value) ==
    LET n == Len(cfg.frames)
        c == cfg.frames[n].comp
        address == storage_address(c.msg)
        padded_slot == pad32(slot)
        current_value == get_storage(cfg.state, address, padded_slot)
        is_currently_empty == strip_is_empty(current_value)
        is_going_to_be_empty == strip_is_empty(value)
        gas_refund == IF is_going_to_be_empty THEN REFUND_SCLEAR ELSE 0
        gas_cost == IF is_currently_empty /\ is_going_to_be_empty THEN GAS_SRESET
                    ELSE IF is_currently_empty THEN GAS_SSET
                    ELSE GAS_SRESET
        c1 == consume_gas(c, gas_cost)
        c2 == IF gas_refund # 0 THEN refund_gas(c1, gas_refund) ELSE c1
    IN  IF is_error(c1)
        THEN Finish([cfg EXCEPT !.frames[n].comp = c1])
        ELSE [cfg EXCEPT !.frames[n].comp = c2,
                         !.state = set_storage(@, address, padded_slot, value)]

\* SSTORE (evm/logic/storage.py): the handler and, when it raised, the end of
\* the frame
sstore(cfg, slot, value) ==
    LET n == Len(cfg.frames)
        h == sstore_handler(cfg.state, cfg.frames[n].comp, slot, value)
    IN  IF is_error(h.comp)
        THEN Finish([cfg EXCEPT !.frames[n].comp = h.comp, !.state = h.state])
        ELSE [cfg EXCEPT !.frames[n].comp = h.comp, !.state = h.state]

----------------------------------------------------------------------------
(* Transactions *)

Transaction(sender, to, value, gas, gas_price, nonce, data) ==
    [sender |-> sender, to |-> to, value |-> value, gas |-> gas,
     gas_price |-> gas_price, nonce |-> nonce, data |-> data]

NoTransaction == Transaction(NoAddress, NoAddress, 0, 0, 0, 0, <<>>)

RECURSIVE data_gas(_)
data_gas(data) ==
    IF data = <<>> THEN 0
    ELSE (IF Head(data) = 0 THEN GAS_TXDATAZERO ELSE GAS_TXDATANONZERO)
         + data_gas(Tail(data))

intrinsic_gas(t) ==
    GAS_TX + data_gas(t.data)
    + (IF t.to = CREATE_CONTRACT_ADDRESS THEN GAS_TXCREATE ELSE 0)

\* validate_transaction: what the pipeline checks before it touches the state
validate_frontier_transaction(st, t) ==
    /\ t.gas >= intrinsic_gas(t)
    /\ t.nonce = get_nonce(st, t.sender)
    /\ get_balance(st, t.sender) >= t.gas * t.gas_price + t.value

RECURSIVE process_self_destructs(_, _)
process_self_destructs_skip(st, dels) == st

\* "Process Self Destructs": zero and delete every registered account
process_self_destructs(st, dels) ==
    IF dels = <<>> THEN st
    ELSE process_self_destructs(
            delete_account(set_balance(st, Head(dels)[1], 0), Head(dels)[1]),
            Tail(dels))

\* _execute_frontier_transaction, "Pre Computation" and message setup
\* (the transaction has been validated)
execute_frontier_transaction_pre(st, t) ==
    LET gas_fee == t.gas * t.gas_price
        st1 == delta_balance(st, t.sender, (-1) * gas_fee)
        st2 == increment_nonce(st1, t.sender)
        message_gas == t.gas - intrinsic_gas(t)
        creating == t.to = CREATE_CONTRACT_ADDRESS
        contract_address == IF creating
                            THEN generate_contract_address(t.sender, get_nonce(st2, t.sender) - 1)
                            ELSE NoAddress
        data == IF creating THEN <<>> ELSE t.data
        code == IF creating THEN t.data ELSE get_code(st2, t.to)
    IN  [state |-> st2,
         message |-> Message(message_gas, t.to, t.sender, t.value, data, code,
                             t.sender, 0, contract_address)]

\* gas_refund = min(gas_refunded, gas_used // 2)
realized_refund(gas_refunded, gas_used) == Min(gas_refunded, gas_used \div 2)

transaction_fee_without_refund(t, gas_remaining, gas_refund) ==
    (t.gas - gas_remaining) * t.gas_price

\* "Miner Fees"
transaction_fee(t, gas_remaining, gas_refund) ==
    (t.gas - gas_remaining - gas_refund) * t.gas_price

\* _execute_frontier_transaction, "Post Computation"
execute_frontier_transaction_post(st, t, c) ==
    LET num_deletions == Len(get_accounts_for_deletion(c))
        c1 == IF num_deletions # 0
              THEN refund_gas(c, REFUND_SELFDESTRUCT * num_deletions) ELSE c
        gas_remaining == get_gas_remaining(c1)
        gas_refunded == get_gas_refund(c1)
        gas_used == t.gas - gas_remaining
        gas_refund == realized_refund(gas_refunded, gas_used)
        gas_refund_amount == (gas_refund + gas_remaining) * t.gas_price
        st1 == IF gas_refund_amount # 0
               THEN delta_balance(st, c1.msg.sender, gas_refund_amount) ELSE st
        fee == transaction_fee(t, gas_remaining, gas_refund)
        st2 == delta_balance(st1, COINBASE, fee)
        st3 == process_self_destructs(st2, get_accounts_for_deletion(c1))
    IN  [state |-> st3, comp |-> c1, before_deletions |-> st2,
         fee |-> [gas_used |-> gas_used, gas_refund |-> gas_refund,
                  gas_remaining |-> gas_remaining,
                  sender_credit |-> gas_refund_amount,
                  coinbase_credit |-> fee]]

\* _apply_transaction (evm/vm/evm.py) up to the message: nonce, then gas
apply_transaction_pre(st, t) ==
    LET st1 == increment_nonce(st, t.sender)
        gas_cost == t.gas * t.gas_price
        sender_balance == get_balance(st1, t.sender)
        st2 == set_balance(st1, t.sender, sender_balance - gas_cost)
        message_gas == t.gas - intrinsic_gas(t)
    IN  IF sender_balance < gas_cost
        THEN [state |-> st1, raised |-> VMError("InsufficientFunds"),
              message |-> Message(0, t.to, t.sender, 0, <<>>, <<>>, t.sender, 0, NoAddress)]
        ELSE [state |-> st2, raised |-> NoError,
              message |-> Message(message_gas, t.to, t.sender, t.value, t.data,
                                  get_code(st2, t.to), t.sender, 0, NoAddress)]

\* _apply_transaction after the computation: fees, refunds, suicides
apply_transaction_post(st, t, c) ==
    LET num_deletions == Len(get_accounts_for_deletion(c))
        c1 == IF is_error(c) THEN c
              ELSE refund_gas(c, REFUND_SELFDESTRUCT * num_deletions)
        gas_remaining == c1.gas_remaining
        gas_refunded == c1.gas_refunded
        gas_used == t.gas - gas_remaining
        gas_refund == IF is_error(c) THEN 0 ELSE realized_refund(gas_refunded, gas_used)
        gas_refund_amount == IF is_error(c) THEN 0
                             ELSE (gas_refund + gas_remaining) * t.gas_price
        fee == IF is_error(c) THEN t.gas * t.gas_price
               ELSE transaction_fee(t, gas_remaining, gas_refund)
        st1 == IF is_error(c) THEN st
               ELSE set_balance(st, c1.msg.sender,
                                get_balance(st, c1.msg.sender) + gas_refund_amount)
        st2 == set_balance(st1, COINBASE, get_balance(st1, COINBASE) + fee)
        st3 == process_self_destructs(st2, get_accounts_for_deletion(c1))
    IN  [state |-> st3, comp |-> c1, before_deletions |-> st2,
         fee |-> [gas_used |-> gas_used, gas_refund |-> gas_refund,
                  gas_remaining |-> gas_remaining,
                  sender_credit |-> gas_refund_amount,
                  coinbase_credit |-> fee]]

----------------------------------------------------------------------------
(* The world before the transaction and the transactions offered *)

SENDER3 == <<6>>       \* externally owned, cannot pay for the gas it asks for

SLOT0 == <<0>>


GenesisAccounts ==
    (SENDER :> [Account EXCEPT !.balance = 400000])
    @@ (SENDER2 :> [Account EXCEPT !.balance = 400000])
    @@ (SENDER3 :> [Account EXCEPT !.balance = 30000])
    @@ (ADDR_A :> [Account EXCEPT !.balance = 5, !.code_hash = keccak(CODE_A),
                                  !.storage = (pad32(SLOT0) :> rlp_encode(<<1>>))])
    @@ (ADDR_B :> [Account EXCEPT !.code_hash = keccak(CODE_B)])
    @@ (TAKEN_ADDRESS :> [Account EXCEPT !.code_hash = keccak(CODE_B)])
    @@ (TAKEN_BY_NESTED :> [Account EXCEPT !.code_hash = keccak(CODE_B)])

GenesisState ==
    [state_root |-> GenesisAccounts,
     db |-> [EmptyDB EXCEPT !.kv = (keccak(CODE_A) :> CODE_A) @@ (keccak(CODE_B) :> CODE_B)]]

FrontierTxs ==
    { Transaction(SENDER, ADDR_A, 1, 150000, 2, 0, <<>>),
      Transaction(SENDER, ADDR_A, 0, 27000, 2, 0, <<>>),
      Transaction(SENDER, CREATE_CONTRACT_ADDRESS, 1, 150000, 2, 0, INIT_CODE),
      Transaction(SENDER2, CREATE_CONTRACT_ADDRESS, 0, 150000, 2, 0, INIT_CODE),
      Transaction(SENDER, COINBASE, 1, 27000, 2, 0, <<>>),
      Transaction(SENDER, ADDR_A, 1, 150000, 2, 1, <<>>),
      Transaction(SENDER, ADDR_A, 1, 20000, 2, 0, <<>>),
      Transaction(SENDER, ADDR_A, 1000000, 150000, 2, 0, <<>>),
      Transaction(SENDER3, ADDR_A, 0, 27000, 2, 0, <<>>),
      Transaction(SENDER, ADDR_A, 0, 73100, 2, 0, <<>>) }

\* _apply_transaction reads neither the nonce nor the intrinsic gas bound:
\* it is offered transactions that are right on both
EvmTxs ==
    { Transaction(SENDER, ADDR_A, 1, 150000, 2, 0, <<>>),
      Transaction(SENDER, ADDR_A, 1000000, 150000, 2, 0, <<>>),
      Transaction(SENDER3, ADDR_A, 0, 27000, 2, 0, <<>>) }

\* what the opcodes of a frame may be given as operands
StoreValues == { <<0>>, <<1>> }
CallArgs == { <<ADDR_A, 1, 30000>>, <<ADDR_B, 1, 700>>, <<SENDER, 1, 700>> }
Beneficiaries == { ADDR_B, COINBASE }
ReturnValues == { <<>>, <<7>> }

NoFee == [gas_used |-> 0, gas_refund |-> 0, gas_remaining |-> 0,
          sender_credit |-> 0, coinbase_credit |-> 0]

NoMessage == Message(0, NoAddress, NoAddress, 0, <<>>, <<>>, NoAddress, 0, NoAddress)

NoExit == [fid |-> 0, errored |-> FALSE, is_create |-> FALSE,
           entry |-> EmptyMap, after |-> EmptyMap,
           ran |-> Computation(NoMessage, 0), comp |-> Computation(NoMessage, 0)]

NoApplied == [msg |-> NoMessage, raised |-> NoError, before |-> EmptyMap, after |-> EmptyMap]

NoStore == [ran |-> FALSE, failed |-> FALSE, current |-> <<>>, value |-> <<>>,
            stored |-> <<>>, refunded |-> 0,
            gas_before |-> 0, gas_after |-> 0, refunded_before |-> 0, refunded_after |-> 0]

\* history of the transaction: the state before it, the frames entered
\* (numbered in order of entry, parent[fid] = 0 for the top frame), the frames
\* that ended in error, the last frame exit, the value transfers made on
\* frame entry, the top-level computation as it was handed to the
\* post-computation step, the LOG executions, the addresses that ran
\* SELFDESTRUCT and the account of the last of them as SELFDESTRUCT found
\* it, the fee settlement and the last step taken; what the last application
\* of a message did to the accounts, the frames that ended with an error raised
\* while a message of theirs was applied, the registrations for deletion in the
\* order they were made, the state the deletions of the transaction were
\* applied to, and the last SSTORE
NoGhost == [pre |-> GenesisState, nframes |-> 0, parent |-> <<>>, failed |-> {},
            exit |-> NoExit, transfers |-> <<>>, top |-> <<>>,
            emitted |-> <<>>, destructed |-> {},
            kept |-> [address |-> NoAddress, existed |-> FALSE, account |-> Account],
            fee |-> NoFee, last |-> "none",
            applied |-> NoApplied, blamed |-> {}, registered |-> <<>>,
            settle |-> GenesisState, sstore |-> NoStore, stores |-> <<>>,
            refunds |-> <<>>]

\* what a user of BaseState can read: the state root and the keys of the db
StateKeys == { <<10>>, keccak(CODE_A) }

View(st) == [root |-> st.state_root, reads |-> [k \in StateKeys |-> db_get(st.db, k)]]

NoView == [root |-> EmptyMap, reads |-> EmptyMap]

\* held = [stack, writes, last]: the snapshots still valid, oldest first, each
\* with what could be read when it was taken and whether a snapshot taken
\* after it was since committed or reverted with changes under it; the
\* number of writes made; what the last revert or commit did
NoOutcome == [op |-> "none", at |-> NoView, before |-> NoView, after |-> NoView,
              inner_committed |-> FALSE, inner_reverted |-> FALSE]

PinnedHeld == [stack |-> <<>>, writes |-> 0, last |-> NoOutcome]

Init ==
    /\ pc = "idle"
    /\ pipeline = "none"
    /\ tx = NoTransaction
    /\ state = GenesisState
    /\ frames = <<>>
    /\ result = <<>>
    /\ log_counter = 0
    /\ steps = 0
    /\ ghost = NoGhost
    /\ held = PinnedHeld

Cfg == [frames |-> frames, state |-> state, result |-> result, ghost |-> ghost,
        raised |-> NoError, crashed |-> FALSE]

\* the position the handler is left in
Go(cfg) ==
    /\ frames' = cfg.frames
    /\ state' = cfg.state
    /\ result' = cfg.result
    /\ ghost' = cfg.ghost
    /\ pc' = IF cfg.crashed \/ cfg.raised # NoError THEN "aborted"
             ELSE IF cfg.result # <<>> THEN "post"
             ELSE "running"

Top == frames[Len(frames)].comp

Running == pc = "running" /\ frames # <<>>

\* _apply_transaction (evm/vm/evm.py), up to the first opcode
ApplyTransaction ==
    /\ pc = "idle"
    /\ \E t \in EvmTxs :
        LET pre == apply_transaction_pre(state, t)
        IN  /\ tx' = t
            /\ pipeline' = "evm"
            /\ IF pre.raised # NoError
               THEN Go([Cfg EXCEPT !.state = pre.state, !.raised = pre.raised])
               ELSE Go(Enter([Cfg EXCEPT !.state = pre.state], pre.message,
                             is_create(pre.message)))
    /\ UNCHANGED <<log_counter, steps, held>>

\* the computation of a creation whose address is taken: never applied
collision_computation(message) ==
    [Computation(message, 1) EXCEPT !.error = VMError("ContractCreationCollision")]

\* _execute_frontier_transaction, up to the first opcode
ExecuteFrontierTransaction ==
    /\ pc = "idle"
    /\ \E t \in FrontierTxs :
        /\ tx' = t
        /\ pipeline' = "frontier"
        /\ IF ~validate_frontier_transaction(state, t)
           THEN /\ pc' = "rejected"
                /\ UNCHANGED <<state, frames, result, ghost>>
           ELSE LET pre == execute_frontier_transaction_pre(state, t)
                    cfg == [Cfg EXCEPT !.state = pre.state]
                    is_collision == account_has_code_or_nonce(
                                        pre.state, pre.message.create_address)
                    collided == collision_computation(pre.message)
                IN  IF is_create(pre.message)
                    THEN IF is_collision
                         THEN Go([cfg EXCEPT !.result = <<collided>>,
                                             !.ghost.nframes = 1,
                                             !.ghost.parent = <<0>>,
                                             !.ghost.failed = {1}])
                         ELSE Go(Enter(cfg, pre.message, TRUE))
                    ELSE Go(Enter(cfg, pre.message, FALSE))
    /\ UNCHANGED <<log_counter, steps, held>>

----------------------------------------------------------------------------
(* Opcodes of the top frame.  The dispatcher pays the base gas, then the   *)
(* handler runs; a VMError ends the frame, and so do the halting opcodes.   *)

SetTop(cfg, c) == [cfg EXCEPT !.frames[Len(cfg.frames)].comp = c]

OpSSTORE ==
    /\ Running
    /\ steps < MaxSteps
    /\ \E value \in StoreValues :
        LET after == sstore(Cfg, SLOT0, value)
            failed == Len(after.frames) < Len(frames)
            c == IF failed THEN Top ELSE after.frames[Len(after.frames)].comp
        IN  Go([after EXCEPT
                   !.ghost.last = "SSTORE",
                   !.ghost.sstore =
                       [ran |-> TRUE, failed |-> failed,
                        current |-> get_storage(state, storage_address(Top.msg), pad32(SLOT0)),
                        value |-> value,
                        gas_before |-> Top.gas_remaining, gas_after |-> c.gas_remaining,
                        refunded_before |-> Top.gas_refunded,
                        refunded_after |-> c.gas_refunded,
                        stored |-> get_storage(sstore_handler(state, Top, SLOT0, value).state,
                                               storage_address(Top.msg), pad32(SLOT0)),
                        refunded |-> sstore_handler(state, Top, SLOT0, value).comp.gas_refunded],
                   !.ghost.refunds =
                       IF failed \/ c.gas_refunded = Top.gas_refunded THEN @
                       ELSE Append(@, [fid |-> Top.fid,
                                       amount |-> c.gas_refunded - Top.gas_refunded])])
    /\ steps' = steps + 1
    /\ UNCHANGED <<pipeline, tx, log_counter, held>>

\* LOG0: add_log_entry under the next counter of the transaction context
OpLOG ==
    /\ Running
    /\ log_counter < MaxLogs
    /\ LET c == consume_gas(Top, GAS_LOG)
           entry == <<log_counter, storage_address(Top.msg), <<>>, <<>>>>
       IN  IF is_error(c)
           THEN /\ Go([Finish(SetTop(Cfg, c)) EXCEPT !.ghost.last = "LOG"])
                /\ UNCHANGED log_counter
           ELSE /\ Go([SetTop(Cfg, add_log_entry(c, log_counter, storage_address(Top.msg),
                                                 <<>>, <<>>))
                          EXCEPT !.ghost.emitted = Append(@, [entry |-> entry, fid |-> Top.fid]),
                                 !.ghost.last = "LOG"])
                /\ log_counter' = log_counter + 1
    /\ UNCHANGED <<pipeline, tx, steps, held>>

\* CALL: pay the base gas and the gas handed to the child, apply the child message
OpCALL ==
    /\ Running
    /\ steps < MaxSteps
    /\ Len(frames) < MaxDepth
    /\ \E args \in CallArgs :
        LET c == consume_gas(consume_gas(Top, GAS_CALL), args[3])
            child_msg == prepare_child_message(c, args[3], args[1], args[2], <<>>,
                                               get_code(state, args[1]), NoAddress)
        IN  IF is_error(c)
            THEN Go([Finish(SetTop(Cfg, exit_with_error(c, VMError("OutOfGas"))))
                        EXCEPT !.ghost.last = "CALL"])
            ELSE Go([Enter(SetTop(Cfg, c), child_msg, FALSE) EXCEPT !.ghost.last = "CALL"])
    /\ steps' = steps + 1
    /\ UNCHANGED <<pipeline, tx, log_counter, held>>

\* CREATE: the child gets all the gas left after the base cost; its address
\* comes from the creator's current nonce
OpCREATE ==
    /\ Running
    /\ steps < MaxSteps
    /\ Len(frames) < MaxDepth
    /\ LET c0 == consume_gas(Top, GAS_CREATE)
           gas == c0.gas_remaining
           c == consume_gas(c0, gas)
           creator == storage_address(Top.msg)
           address == generate_contract_address(creator, get_nonce(state, creator))
           child_msg == prepare_child_message(c, gas, CREATE_CONTRACT_ADDRESS, 0, <<>>,
                                              INIT_CODE, address)
       IN  IF is_error(c0)
           THEN Go([Finish(SetTop(Cfg, c0)) EXCEPT !.ghost.last = "CREATE"])
           ELSE Go([Enter(SetTop(Cfg, c), child_msg, TRUE) EXCEPT !.ghost.last = "CREATE"])
    /\ steps' = steps + 1
    /\ UNCHANGED <<pipeline, tx, log_counter, held>>

\* SELFDESTRUCT: register the storage address, halt
OpSELFDESTRUCT ==
    /\ Running
    /\ \E beneficiary \in Beneficiaries :
        Go([Finish(SetTop(Cfg, register_account_for_deletion(Top, beneficiary)))
               EXCEPT !.ghost.destructed = @ \cup {storage_address(Top.msg)},
                      !.ghost.registered = Append(@, [fid |-> Top.fid,
                                                      pair |-> <<storage_address(Top.msg),
                                                                 beneficiary>>]),
                      !.ghost.kept = [address |-> storage_address(Top.msg),
                                      existed |-> account_exists(state, storage_address(Top.msg)),
                                      account |-> get_account(state, storage_address(Top.msg))],
                      !.ghost.last = "SELFDESTRUCT"])
    /\ UNCHANGED <<pipeline, tx, log_counter, steps, held>>

\* RETURN (STOP when the output is empty): set the output, halt
OpRETURN ==
    /\ Running
    /\ \E out \in ReturnValues :
        Go([Finish(SetTop(Cfg, [Top EXCEPT !.raw_output = out]))
               EXCEPT !.ghost.last = "RETURN"])
    /\ UNCHANGED <<pipeline, tx, log_counter, steps, held>>

\* a byte outside the opcode table
OpINVALID ==
    /\ Running
    /\ Go([Fail(Cfg, VMError("InvalidOpcode")) EXCEPT !.ghost.last = "INVALID"])
    /\ UNCHANGED <<pipeline, tx, log_counter, steps, held>>

\* _apply_transaction after the computation
ApplyTransactionPost ==
    /\ pc = "post"
    /\ pipeline = "evm"
    /\ LET post == apply_transaction_post(state, tx, result[1])
       IN  /\ state' = post.state
           /\ result' = <<post.comp>>
           /\ ghost' = [ghost EXCEPT !.fee = post.fee, !.top = result,
                                     !.settle = post.before_deletions,
                                     !.last = "post"]
    /\ pc' = "done"
    /\ UNCHANGED <<pipeline, tx, frames, log_counter, steps, held>>

\* _execute_frontier_transaction, "Post Computation"
ExecuteFrontierTransactionPost ==
    /\ pc = "post"
    /\ pipeline = "frontier"
    /\ LET post == execute_frontier_transaction_post(state, tx, result[1])
       IN  /\ state' = post.state
           /\ result' = <<post.comp>>
           /\ ghost' = [ghost EXCEPT !.fee = post.fee, !.top = result,
                                     !.settle = post.before_deletions,
                                     !.last = "post"]
    /\ pc' = "done"
    /\ UNCHANGED <<pipeline, tx, frames, log_counter, steps, held>>

Next ==
    \/ ApplyTransaction
    \/ ExecuteFrontierTransaction
    \/ OpSSTORE
    \/ OpLOG
    \/ OpCALL
    \/ OpCREATE
    \/ OpSELFDESTRUCT
    \/ OpRETURN
    \/ OpINVALID
    \/ ApplyTransactionPost
    \/ ExecuteFrontierTransactionPost

Spec == Init /\ [][Next]_vars

----------------------------------------------------------------------------
(* SpecState: BaseState.snapshot / revert / commit called in any order by a *)
(* user that writes accounts and db keys in between.                        *)

StateSnapshot ==
    /\ record_id(state.db) <= MaxSnapshots
    /\ state' = snapshot_state(state)
    /\ held' = [held EXCEPT !.stack = Append(@, [snap |-> snapshot(state),
                                                 view |-> View(state),
                                                 inner_committed |-> FALSE,
                                                 inner_reverted |-> FALSE])]
    /\ UNCHANGED <<pc, pipeline, tx, frames, result, log_counter, steps, ghost>>

\* the snapshots older than the i-th, told that the i-th ended with changes
below(i, committed) ==
    LET dirty == View(state) # held.stack[i].view
    IN  [j \in 1..(i - 1) |->
            [held.stack[j] EXCEPT
                !.inner_committed = @ \/ (committed /\ dirty),
                !.inner_reverted = @ \/ (~committed /\ dirty)]]

StateRevert ==
    /\ \E i \in DOMAIN held.stack :
        LET h == held.stack[i]
            st == revert(state, h.snap)
        IN  /\ state' = st
            /\ held' = [held EXCEPT
                            !.stack = below(i, FALSE),
                            !.last = [op |-> "revert", at |-> h.view,
                                      before |-> View(state), after |-> View(st),
                                      inner_committed |-> h.inner_committed,
                                      inner_reverted |-> h.inner_reverted]]
    /\ UNCHANGED <<pc, pipeline, tx, frames, result, log_counter, steps, ghost>>

StateCommit ==
    /\ \E i \in DOMAIN held.stack :
        LET h == held.stack[i]
            st == commit(state, h.snap)
        IN  /\ state' = st
            /\ held' = [held EXCEPT
                            !.stack = below(i, TRUE),
                            !.last = [op |-> "commit", at |-> h.view,
                                      before |-> View(state), after |-> View(st),
                                      inner_committed |-> h.inner_committed,
                                      inner_reverted |-> h.inner_reverted]]
    /\ UNCHANGED <<pc, pipeline, tx, frames, result, log_counter, steps, ghost>>

\* a write to the db under the journal
StateWriteKey ==
    /\ held.writes < MaxWrites
    /\ \E value \in { <<1>>, <<2>> } :
        state' = [state EXCEPT !.db = db_set(@, <<10>>, value)]
    /\ held' = [held EXCEPT !.writes = @ + 1]
    /\ UNCHANGED <<pc, pipeline, tx, frames, result, log_counter, steps, ghost>>

StateDeleteKey ==
    /\ held.writes < MaxWrites
    /\ \E k \in StateKeys :
        /\ db_exists(state.db, k)
        /\ state' = [state EXCEPT !.db = db_delete(@, k)]
    /\ held' = [held EXCEPT !.writes = @ + 1]
    /\ UNCHANGED <<pc, pipeline, tx, frames, result, log_counter, steps, ghost>>

\* a write to an account: the state root moves
StateWriteAccount ==
    /\ held.writes < MaxWrites
    /\ state' = delta_balance(state, ADDR_B, 1)
    /\ held' = [held EXCEPT !.writes = @ + 1]
    /\ UNCHANGED <<pc, pipeline, tx, frames, result, log_counter, steps, ghost>>

NextState ==
    \/ StateSnapshot
    \/ StateRevert
    \/ StateCommit
    \/ StateWriteKey
    \/ StateDeleteKey
    \/ StateWriteAccount

SpecState == Init /\ [][NextState]_vars

----------------------------------------------------------------------------
(* SpecMessage: messages of every shape handed to                           *)
(* BaseComputation.generate_child_computation, which applies them as a      *)
(* create or as a call.  held is the message, result the path taken.        *)

MessageTargets == { CREATE_CONTRACT_ADDRESS, ADDR_A, ADDR_B, SENDER }
MessageCreateAddresses == { NoAddress, generate_contract_address(ADDR_A, 0), TAKEN_ADDRESS }

\* if child_msg.is_create: apply_create_message() else: apply_message()
generate_child_computation(child_msg) ==
    [applied_by |-> IF is_create(child_msg) THEN "apply_create_message"
                    ELSE "apply_message",
     storage_address |-> storage_address(child_msg)]

InitMessage ==
    \E to \in MessageTargets, create_address \in MessageCreateAddresses,
       sender \in { SENDER, ADDR_A, ADDR_B }, value \in { 0, 1 }, depth \in { 0, 1 } :
        /\ pc = "idle"
        /\ pipeline = "none"
        /\ tx = NoTransaction
        /\ state = GenesisState
        /\ frames = <<>>
        /\ result = <<>>
        /\ log_counter = 0
        /\ steps = 0
        /\ ghost = NoGhost
        /\ held = Message(30000, to, sender, value, <<>>, INIT_CODE, SENDER, depth,
                          create_address)

GenerateChildComputation ==
    /\ pc = "idle"
    /\ pc' = "done"
    /\ result' = <<generate_child_computation(held)>>
    /\ UNCHANGED <<pipeline, tx, state, frames, log_counter, steps, ghost, held>>

NextMessage == GenerateChildComputation

SpecMessage == InitMessage /\ [][NextMessage]_vars

----------------------------------------------------------------------------
(* SpecCallGas: the call family and CREATE of the EIP-150 opcode table        *)
(* (evm/vm/flavors/eip150/opcodes.py) executed in a frame.  held is the       *)
(* frame's gas before the opcode, the gas the opcode asks for on the stack    *)
(* and the opcode's further costs (value transfer, new account, memory);      *)
(* result is what came of it.                                                 *)

\* all but one 64th
max_child_gas_eip150_of_63_64ths(gas) == (gas \div 64) * 63

max_child_gas_eip150(gas) == gas - (gas \div 64)

\* the handler, entered once the dispatcher has charged gas_cost
compute_eip150_msg_gas(gas_remaining, gas, extra_gas) ==
    IF gas_remaining < extra_gas
    THEN [raised |-> VMError("OutOfGas"), child_msg_gas |-> 0, gas_remaining |-> 0]
    ELSE LET capped == Min(gas, max_child_gas_eip150(gas_remaining - extra_gas))
         IN  [raised |-> NoError, child_msg_gas |-> capped,
              gas_remaining |-> gas_remaining - extra_gas - capped]

\* the opcode: gas_cost of the table, then the handler
eip150_opcode(mnemonic, gas_cost, gas_remaining, gas, extra_gas) ==
    IF gas_remaining < gas_cost
    THEN [mnemonic |-> mnemonic, raised |-> VMError("OutOfGas"),
          child_msg_gas |-> 0, gas_remaining |-> 0]
    ELSE LET r == compute_eip150_msg_gas(gas_remaining - gas_cost, gas, extra_gas)
         IN  [mnemonic |-> mnemonic, raised |-> r.raised,
              child_msg_gas |-> r.child_msg_gas, gas_remaining |-> r.gas_remaining]

GasRemaining == { 600, 700, 9699, 9700, 9763, 64699, 64700, 64701, 73700, 96000, 132000 }
GasRequested == { 0, 1, 62999, 63000, 63001, 100000 }
ExtraGas == { 0, 9000, 34000 }

InitCallGas ==
    \E gas_remaining \in GasRemaining, gas \in GasRequested, extra_gas \in ExtraGas :
        /\ pc = "idle"
        /\ pipeline = "none"
        /\ tx = NoTransaction
        /\ state = GenesisState
        /\ frames = <<>>
        /\ result = <<>>
        /\ log_counter = 0
        /\ steps = 0
        /\ ghost = NoGhost
        /\ held = [gas_remaining |-> gas_remaining, gas |-> gas, extra_gas |-> extra_gas]

CallEIP150 ==
    /\ pc = "idle"
    /\ pc' = "done"
    /\ result' = <<eip150_opcode("CALL", GAS_CALL_EIP150,
                                 held.gas_remaining, held.gas, held.extra_gas)>>
    /\ UNCHANGED <<pipeline, tx, state, frames, log_counter, steps, ghost, held>>

CallCodeEIP150 ==
    /\ pc = "idle"
    /\ pc' = "done"
    /\ result' = <<eip150_opcode("CALLCODE", GAS_CALL_EIP150,
                                 held.gas_remaining, held.gas, held.extra_gas)>>
    /\ UNCHANGED <<pipeline, tx, state, frames, log_counter, steps, ghost, held>>

DelegateCallEIP150 ==
    /\ pc = "idle"
    /\ pc' = "done"
    /\ result' = <<eip150_opcode("DELEGATECALL", GAS_CALL_EIP150,
                                 held.gas_remaining, held.gas, held.extra_gas)>>
    /\ UNCHANGED <<pipeline, tx, state, frames, log_counter, steps, ghost, held>>

\* CREATE takes no gas argument: it asks for all the gas there is
CreateEIP150 ==
    /\ pc = "idle"
    /\ pc' = "done"
    /\ result' = <<eip150_opcode("CREATE", GAS_CREATE,
                                 held.gas_remaining, held.gas_remaining, held.extra_gas)>>
    /\ UNCHANGED <<pipeline, tx, state, frames, log_counter, steps, ghost, held>>

NextCallGas ==
    \/ CallEIP150
    \/ CallCodeEIP150
    \/ DelegateCallEIP150
    \/ CreateEIP150

SpecCallGas == InitCallGas /\ [][NextCallGas]_vars

----------------------------------------------------------------------------
(* SpecPrecompile: one message applied by apply_computation, by the EVM of    *)
(* evm/vm/evm.py over the PRECOMPILES of evm/precompile.py (pipeline "evm")   *)
(* or by BaseComputation.apply_computation over FRONTIER_PRECOMPILES          *)
(* (pipeline "frontier").  held is the message, result what came of it: the   *)
(* computation and the exception that left apply_computation, if any.         *)

\* force_bytes_to_address: left-padded to the width of an address
force_bytes_to_address(b) == <<0>> \o b

ceil32(value) == ((value + 31) \div 32) * 32

\* evm/precompile.py: PRECOMPILES
PRECOMPILES ==
    (force_bytes_to_address(<<1>>) :> "not_implemented") @@
    (force_bytes_to_address(<<3>>) :> "not_implemented") @@
    (force_bytes_to_address(<<4>>) :> "not_implemented")

\* evm/vm/forks/frontier/__init__.py: FRONTIER_PRECOMPILES
FRONTIER_PRECOMPILES ==
    (force_bytes_to_address(<<1>>) :> "ecrecover") @@
    (force_bytes_to_address(<<3>>) :> "ripemd160") @@
    (force_bytes_to_address(<<4>>) :> "identity")

NoException == "none"

identity_without_word_gas(c) ==
    LET paid == consume_gas(c, GAS_IDENTITY)
    IN  IF is_error(paid) THEN paid ELSE [paid EXCEPT !.raw_output = c.msg.data]

\* precompiles.identity
identity(c) ==
    LET word_count == ceil32(Len(c.msg.data)) \div 32
        gas_fee == GAS_IDENTITY + word_count * GAS_IDENTITYWORD
        paid == consume_gas(c, gas_fee)
    IN  IF is_error(paid) THEN paid ELSE [paid EXCEPT !.raw_output = c.msg.data]

\* the bytecode loop over the code of the message; the accounts messaged here
\* have no code
run_code(c) == c

\* the table entry called on the computation
run_precompile(name, c) ==
    IF name = "identity" THEN [escaped |-> NoException, comp |-> identity(c)]
    ELSE [escaped |-> "NotImplementedError", comp |-> c]

\* BaseEVM.apply_computation (evm/vm/evm.py)
evm_apply_computation(message) ==
    LET computation == Computation(message, 1)
    IN  IF message.to \in DOMAIN PRECOMPILES
        THEN run_precompile(PRECOMPILES[message.to], computation)
        ELSE [escaped |-> NoException, comp |-> run_code(computation)]

\* BaseComputation.apply_computation (evm/vm/computation.py); code_address
\* of the messages here is their to
apply_computation(message) ==
    LET computation == Computation(message, 1)
    IN  IF message.to \in DOMAIN FRONTIER_PRECOMPILES
        THEN run_precompile(FRONTIER_PRECOMPILES[message.to], computation)
        ELSE [escaped |-> NoException, comp |-> run_code(computation)]

PrecompileTargets == { force_bytes_to_address(<<4>>), force_bytes_to_address(<<1>>), SENDER2 }
PrecompileData == { [i \in 1..n |-> 7] : n \in { 0, 1, 31, 32, 33, 64, 65 } }
PrecompileGas == { 0, 14, 15, 17, 18, 20, 21, 23, 24, 100 }

InitPrecompile ==
    \E to \in PrecompileTargets, data \in PrecompileData, gas \in PrecompileGas,
       p \in { "evm", "frontier" } :
        /\ pc = "idle"
        /\ pipeline = p
        /\ tx = NoTransaction
        /\ state = GenesisState
        /\ frames = <<>>
        /\ result = <<>>
        /\ log_counter = 0
        /\ steps = 0
        /\ ghost = NoGhost
        /\ held = Message(gas, to, SENDER, 0, data, <<>>, SENDER, 0, NoAddress)

EvmApplyComputation ==
    /\ pc = "idle"
    /\ pipeline = "evm"
    /\ pc' = "done"
    /\ result' = <<evm_apply_computation(held)>>
    /\ UNCHANGED <<pipeline, tx, state, frames, log_counter, steps, ghost, held>>

ApplyComputation ==
    /\ pc = "idle"
    /\ pipeline = "frontier"
    /\ pc' = "done"
    /\ result' = <<apply_computation(held)>>
    /\ UNCHANGED <<pipeline, tx, state, frames, log_counter, steps, ghost, held>>

NextPrecompile ==
    \/ EvmApplyComputation
    \/ ApplyComputation

SpecPrecompile == InitPrecompile /\ [][NextPrecompile]_vars

----------------------------------------------------------------------------
(* SpecLoop: one message applied to code given byte by byte, by               *)
(* _apply_message or _apply_create_message and the loop of                    *)
(* _apply_computation (evm/vm/evm.py).  held is the message; frames holds the *)
(* one frame, its computation and snapshots; steps is the number of opcodes   *)
(* executed (code.pc); result is the computation the frame ends with.         *)

\* the opcode table of the fork, by mnemonic; every other byte is unknown
opcodes ==
    (0 :> "STOP") @@ (160 :> "LOG0") @@ (243 :> "RETURN") @@ (255 :> "SUICIDE")

BREAK_OPCODES == { b \in DOMAIN opcodes : opcodes[b] \in { "RETURN", "STOP", "SUICIDE" } }

\* try: return self.opcodes[opcode] except KeyError: return InvalidOpcode(opcode)
get_opcode_fn(opcode) ==
    IF opcode \in DOMAIN opcodes THEN opcodes[opcode] ELSE "INVALID"

\* the handler called on the computation; a VMError it raises is set on the
\* computation at the frame boundary
opcode_fn(mnemonic, c) ==
    IF mnemonic = "STOP" THEN c
    ELSE IF mnemonic = "LOG0"
    THEN LET paid == consume_gas(c, GAS_LOG)
         IN  IF is_error(paid) THEN paid
             ELSE add_log_entry(paid, Len(c.log_entries), storage_address(c.msg), <<>>, <<>>)
    ELSE IF mnemonic = "RETURN" THEN [c EXCEPT !.raw_output = <<7>>]
    ELSE IF mnemonic = "SUICIDE" THEN register_account_for_deletion(c, COINBASE)
    ELSE exit_with_error(c, VMError("InvalidOpcode"))

loop_goes_on_after_suicide(opcode, c) ==
    ~is_error(c) /\ (opcode \notin BREAK_OPCODES \/ opcodes[opcode] = "SUICIDE")

\* neither break of the loop is taken
loop_goes_on(opcode, c) == ~is_error(c) /\ opcode \notin BREAK_OPCODES

LoopBytes == { 0, 160, 243, 255, 239 }
LoopCodes == UNION { [1..n -> LoopBytes] : n \in 0..3 }
LoopGas == { 100, 500, 100000 }

\* messages of the transaction's sender, and of a contract it called
LoopMessages ==
    { Message(gas, ADDR_B, sender, 1, <<>>, code, SENDER,
              IF sender = SENDER THEN 0 ELSE 1, NoAddress) :
          gas \in LoopGas, sender \in { SENDER, ADDR_A }, code \in LoopCodes }
    \cup
    { Message(gas, CREATE_CONTRACT_ADDRESS, sender, 1, <<>>, code, SENDER,
              IF sender = SENDER THEN 0 ELSE 1,
              generate_contract_address(sender, 0)) :
          gas \in LoopGas, sender \in { SENDER, ADDR_A }, code \in LoopCodes }

InitLoop ==
    \E message \in LoopMessages :
        LET st0 == IF is_create(message) THEN snapshot_state(GenesisState) ELSE GenesisState
            ent == apply_message_enter(st0, message)
        IN  /\ pc = "running"
            /\ pipeline = "evm"
            /\ tx = NoTransaction
            /\ state = ent.state
            /\ frames = <<[comp |-> Computation(message, 1), snap |-> ent.snap,
                           outer_snap |-> snapshot(GenesisState)]>>
            /\ result = <<>>
            /\ log_counter = 0
            /\ steps = 0
            /\ ghost = NoGhost
            /\ held = message

\* one turn of the loop: for opcode in computation.code
ExecuteOpcode ==
    /\ pc = "running"
    /\ steps < Len(held.code)
    /\ LET opcode == held.code[steps + 1]
           c == opcode_fn(get_opcode_fn(opcode), frames[1].comp)
       IN  /\ frames' = [frames EXCEPT ![1].comp = c]
           /\ pc' = IF loop_goes_on(opcode, c) THEN "running" ELSE "returned"
    /\ steps' = steps + 1
    /\ UNCHANGED <<pipeline, tx, state, result, log_counter, ghost, held>>

\* the code is exhausted
EndOfCode ==
    /\ pc = "running"
    /\ steps = Len(held.code)
    /\ pc' = "returned"
    /\ UNCHANGED <<pipeline, tx, state, frames, result, log_counter, steps, ghost, held>>

\* _apply_message after apply_computation
ApplyMessageExit ==
    /\ pc = "returned"
    /\ ~is_create(held)
    /\ state' = apply_message_exit(state, frames[1].snap, frames[1].comp)
    /\ result' = <<frames[1].comp>>
    /\ pc' = "done"
    /\ UNCHANGED <<pipeline, tx, frames, log_counter, steps, ghost, held>>

\* _apply_create_message after apply_message
ApplyCreateMessageExit ==
    /\ pc = "returned"
    /\ is_create(held)
    /\ LET st1 == apply_message_exit(state, frames[1].snap, frames[1].comp)
           cr == apply_create_message_exit(st1, frames[1].outer_snap, frames[1].comp)
       IN  /\ state' = cr.state
           /\ result' = <<cr.comp>>
    /\ pc' = "done"
    /\ UNCHANGED <<pipeline, tx, frames, log_counter, steps, ghost, held>>

NextLoop ==
    \/ ExecuteOpcode
    \/ EndOfCode
    \/ ApplyMessageExit
    \/ ApplyCreateMessageExit

SpecLoop == InitLoop /\ [][NextLoop]_vars

----------------------------------------------------------------------------
(* SpecMemory: extend_memory called again and again in one frame             *)
(* (evm/vm/computation.py).  frames holds the frame's computation; held is   *)
(* the length of its memory, a run of zero bytes, and the arguments and the  *)
(* memory length and gas before the last call.                               *)

memory_gas_cost(size_in_bytes) ==
    LET size_in_words == ceil32(size_in_bytes) \div 32
        linear_cost == size_in_words * GAS_MEMORY
        quadratic_cost == (size_in_words * size_in_words) \div GAS_MEMORY_QUADRATIC_DENOMINATOR
    IN  linear_cost + quadratic_cost

\* Memory.extend: grow to ceil32(start_position + size), never shrink
memory_extend(memory_len, start_position, size) ==
    IF size = 0 THEN memory_len
    ELSE Max(memory_len, ceil32(start_position + size))

extend_memory_whatever_size(c, memory_len, start_position, size) ==
    LET before_cost == memory_gas_cost(ceil32(memory_len))
        after_cost == memory_gas_cost(ceil32(start_position + size))
        paid == IF before_cost < after_cost
                THEN consume_gas(c, after_cost - before_cost) ELSE c
    IN  IF is_error(paid) THEN [comp |-> paid, memory_len |-> memory_len]
        ELSE [comp |-> paid, memory_len |-> memory_extend(memory_len, start_position, size)]

\* BaseComputation.extend_memory; consume_gas raises OutOfGas
extend_memory(c, memory_len, start_position, size) ==
    LET before_size == ceil32(memory_len)
        after_size == ceil32(start_position + size)
        before_cost == memory_gas_cost(before_size)
        after_cost == memory_gas_cost(after_size)
        paid == IF size # 0 /\ before_cost < after_cost
                THEN consume_gas(c, after_cost - before_cost) ELSE c
    IN  IF is_error(paid) THEN [comp |-> paid, memory_len |-> memory_len]
        ELSE [comp |-> paid, memory_len |-> memory_extend(memory_len, start_position, size)]

MemoryStarts == { 0, 1, 31, 32, 33, 700, 736, 1023 }
MemorySizes == { 0, 1, 32, 33, 64 }
MemoryGas == { 60, 100000 }

NoExtend == [called |-> FALSE, start_position |-> 0, size |-> 0,
             memory_len |-> 0, gas_remaining |-> 0]

InitMemory ==
    \E gas \in MemoryGas :
        /\ pc = "running"
        /\ pipeline = "none"
        /\ tx = NoTransaction
        /\ state = GenesisState
        /\ frames = <<[comp |-> Computation(Message(gas, ADDR_B, SENDER, 0, <<>>, CODE_B,
                                                     SENDER, 0, NoAddress), 1)]>>
        /\ result = <<>>
        /\ log_counter = 0
        /\ steps = 0
        /\ ghost = NoGhost
        /\ held = [memory_len |-> 0, last |-> NoExtend]

ExtendMemory ==
    /\ pc = "running"
    /\ steps < MaxExtends
    /\ \E start_position \in MemoryStarts, size \in MemorySizes :
          LET r == extend_memory(frames[1].comp, held.memory_len, start_position, size)
          IN  /\ frames' = [frames EXCEPT ![1].comp = r.comp]
              /\ held' = [memory_len |-> r.memory_len,
                           last |-> [called |-> TRUE, start_position |-> start_position,
                                     size |-> size, memory_len |-> held.memory_len,
                                     gas_remaining |-> frames[1].comp.gas_remaining]]
              /\ pc' = IF is_error(r.comp) THEN "done" ELSE "running"
    /\ steps' = steps + 1
    /\ UNCHANGED <<pipeline, tx, state, result, log_counter, ghost>>

NextMemory == ExtendMemory

SpecMemory == InitMemory /\ [][NextMemory]_vars

----------------------------------------------------------------------------
(* SpecBlock: transactions applied one after another to the block of a VM     *)
(* (evm/vm/base.py) with the Frontier receipt.  In this specification state   *)
(* is the block, [header, transactions, receipts]; held is the history: for   *)
(* each transaction applied, the transaction and what the pipeline settled    *)
(* as its gas_used and gas_refund.  The computation of a transaction is any   *)
(* of a few a transaction can end with.                                       *)

make_frontier_receipt_without_refund(block, transaction, computation) ==
    [gas_used |-> block.header.gas_used + (transaction.gas - get_gas_remaining(computation)),
     logs |-> get_log_entries(computation)]

\* _make_frontier_receipt
make_frontier_receipt(block, transaction, computation) ==
    LET gas_remaining == get_gas_remaining(computation)
        gas_refund == get_gas_refund(computation)
        tx_gas_used == (transaction.gas - gas_remaining)
                       - Min(gas_refund, (transaction.gas - gas_remaining) \div 2)
        gas_used == block.header.gas_used + tx_gas_used
    IN  [gas_used |-> gas_used, logs |-> get_log_entries(computation)]

\* VM.add_transaction
add_transaction(block, transaction, computation) ==
    LET receipt == make_frontier_receipt(block, transaction, computation)
    IN  [block EXCEPT !.transactions = Append(@, transaction),
                      !.receipts = Append(@, receipt),
                      !.header.gas_used = receipt.gas_used]

BlockTxs ==
    { Transaction(SENDER, ADDR_A, 0, 50000, 2, 0, <<>>),
      Transaction(SENDER, ADDR_A, 0, 100000, 2, 0, <<>>) }

\* the computations _execute_frontier_transaction may be left with before its
\* post computation: errored or not, with or without gas left, a refund of
\* its own, a registered deletion, a child with a refund
BlockComputations(t) ==
    LET message == Message(t.gas - intrinsic_gas(t), t.to, t.sender, t.value, t.data,
                           CODE_A, t.sender, 0, NoAddress)
        child_msg == Message(700, ADDR_B, ADDR_A, 0, <<>>, CODE_B, t.sender, 1, NoAddress)
        child(err) == [Computation(child_msg, 2) EXCEPT
                          !.gas_refunded = REFUND_SCLEAR,
                          !.error = err,
                          !.gas_remaining = IF err = NoError THEN 100 ELSE 0]
    IN  { [Computation(message, 1) EXCEPT
              !.gas_remaining = IF err = NoError THEN left ELSE 0,
              !.gas_refunded = refunded,
              !.error = err,
              !.children = children,
              !.accounts_to_delete = deleted] :
            err \in { NoError, VMError("OutOfGas") },
            left \in { 0, 9000 },
            refunded \in { 0, REFUND_SCLEAR },
            deleted \in { <<>>, << <<ADDR_A, COINBASE>> >> },
            children \in { <<>>, <<child(NoError)>>, <<child(VMError("OutOfGas"))>> } }

InitBlock ==
    /\ pc = "idle"
    /\ pipeline = "frontier"
    /\ tx = NoTransaction
    /\ state = [header |-> [gas_used |-> 0], transactions |-> <<>>, receipts |-> <<>>]
    /\ frames = <<>>
    /\ result = <<>>
    /\ log_counter = 0
    /\ steps = 0
    /\ ghost = NoGhost
    /\ held = <<>>

\* VM.apply_transaction: state.apply_transaction, then add_transaction
VMApplyTransaction ==
    /\ Len(state.transactions) < MaxTxs
    /\ \E t \in BlockTxs : \E c \in BlockComputations(t) :
          LET post == execute_frontier_transaction_post(GenesisState, t, c)
          IN  /\ state' = add_transaction(state, t, post.comp)
              /\ result' = <<post.comp>>
              /\ tx' = t
              /\ held' = Append(held, [transaction |-> t,
                                        gas_used |-> post.fee.gas_used,
                                        gas_refund |-> post.fee.gas_refund])
    /\ UNCHANGED <<pc, pipeline, frames, log_counter, steps, ghost>>

NextBlock == VMApplyTransaction

SpecBlock == InitBlock /\ [][NextBlock]_vars

----------------------------------------------------------------------------
(* SpecAccounts: the operations of State (evm/state.py) called one after      *)
(* another on a State that starts empty, each addressed to one of two          *)
(* accounts.  In this specification state is the State, steps counts the      *)
(* calls and held is the last call: [op, address].                            *)

AccountAddresses == { ADDR_A, ADDR_B }
AccountBalances == { 0, 7 }
AccountNonces == { 5 }
AccountCodes == { CODE_A, CODE_B }
AccountValues == { <<>>, <<1>> }

InitAccounts ==
    /\ pc = "idle"
    /\ pipeline = "state"
    /\ tx = NoTransaction
    /\ state = [state_root |-> BLANK_ROOT_HASH, db |-> EmptyDB]
    /\ frames = <<>>
    /\ result = <<>>
    /\ log_counter = 0
    /\ steps = 0
    /\ ghost = NoGhost
    /\ held = [op |-> "none", address |-> NoAddress]

SetBalance ==
    /\ steps < MaxOps
    /\ \E address \in AccountAddresses, balance \in AccountBalances :
          /\ state' = set_balance(state, address, balance)
          /\ held' = [op |-> "set_balance", address |-> address]
    /\ steps' = steps + 1
    /\ UNCHANGED <<pc, pipeline, tx, frames, result, log_counter, ghost>>

SetNonce ==
    /\ steps < MaxOps
    /\ \E address \in AccountAddresses, nonce \in AccountNonces :
          /\ state' = set_nonce(state, address, nonce)
          /\ held' = [op |-> "set_nonce", address |-> address]
    /\ steps' = steps + 1
    /\ UNCHANGED <<pc, pipeline, tx, frames, result, log_counter, ghost>>

IncrementNonce ==
    /\ steps < MaxOps
    /\ \E address \in AccountAddresses :
          /\ state' = increment_nonce(state, address)
          /\ held' = [op |-> "increment_nonce", address |-> address]
    /\ steps' = steps + 1
    /\ UNCHANGED <<pc, pipeline, tx, frames, result, log_counter, ghost>>

\* set_code raises ValueError on an account that has code
SetCode ==
    /\ steps < MaxOps
    /\ \E address \in AccountAddresses, code \in AccountCodes :
          /\ state' = IF get_account(state, address).code_hash # EMPTY_SHA3
                       THEN state
                       ELSE set_code(state, address, code)
          /\ held' = [op |-> "set_code", address |-> address]
    /\ steps' = steps + 1
    /\ UNCHANGED <<pc, pipeline, tx, frames, result, log_counter, ghost>>

DeleteCode ==
    /\ steps < MaxOps
    /\ \E address \in AccountAddresses :
          /\ state' = delete_code(state, address)
          /\ held' = [op |-> "delete_code", address |-> address]
    /\ steps' = steps + 1
    /\ UNCHANGED <<pc, pipeline, tx, frames, result, log_counter, ghost>>

StateSetStorage ==
    /\ steps < MaxOps
    /\ \E address \in AccountAddresses, value \in AccountValues :
          /\ state' = set_storage(state, address, SLOT0, value)
          /\ held' = [op |-> "set_storage", address |-> address]
    /\ steps' = steps + 1
    /\ UNCHANGED <<pc, pipeline, tx, frames, result, log_counter, ghost>>

DeleteStorage ==
    /\ steps < MaxOps
    /\ \E address \in AccountAddresses :
          /\ state' = delete_storage(state, address)
          /\ held' = [op |-> "delete_storage", address |-> address]
    /\ steps' = steps + 1
    /\ UNCHANGED <<pc, pipeline, tx, frames, result, log_counter, ghost>>

DeleteAccount ==
    /\ steps < MaxOps
    /\ \E address \in AccountAddresses :
          /\ state' = delete_account(state, address)
          /\ held' = [op |-> "delete_account", address |-> address]
    /\ steps' = steps + 1
    /\ UNCHANGED <<pc, pipeline, tx, frames, result, log_counter, ghost>>

NextAccounts ==
    \/ SetBalance
    \/ SetNonce
    \/ IncrementNonce
    \/ SetCode
    \/ DeleteCode
    \/ StateSetStorage
    \/ DeleteStorage
    \/ DeleteAccount

SpecAccounts == InitAccounts /\ [][NextAccounts]_vars

----------------------------------------------------------------------------
(* SpecUncles: blocks mined on top of a canonical chain (evm/chain.py), each  *)
(* with a list of uncles that validate_uncles accepts or rejects.  In this    *)
(* specification state is the canonical chain, the sequence of its blocks     *)
(* from genesis, so that state[n + 1] is the block with number n and the      *)
(* chain's header has block number Len(state); a block is [hash, parent_hash, *)
(* block_number, uncles], an uncle a header [hash, parent_hash,               *)
(* block_number].  held is the last block mined and what became of it.  All   *)
(* headers are taken to carry a valid seal.                                   *)

MAX_UNCLE_DEPTH == 6
MAX_UNCLES == 2

block_hash(n) == 100 + n

\* the header of a block that was mined at height k next to the canonical one
stale_header(k) ==
    [hash |-> 200 + k, parent_hash |-> block_hash(k - 1), block_number |-> k]

\* a header whose parent the chain does not know
OrphanHeader == [hash |-> 300, parent_hash |-> 400, block_number |-> 1]

header_of(block) ==
    [hash |-> block.hash, parent_hash |-> block.parent_hash,
     block_number |-> block.block_number]

GenesisBlock ==
    [hash |-> block_hash(0), parent_hash |-> 0, block_number |-> 0, uncles |-> <<>>]

\* Chain.get_ancestors under a header with this block number: the canonical
\* blocks from block_number - 1 down to max(block_number - limit, 0)
get_ancestors(chain, block_number, limit) ==
    LET lower_limit == Max(block_number - limit, 0)
    IN  [i \in 1..(block_number - lower_limit) |-> chain[block_number - i + 1]]

\* the loop of validate_uncles from the i-th uncle on: "ok", or the
\* ValidationError it raises
RECURSIVE validate_uncle_from(_, _, _, _)
validate_uncle_from(recent_ancestors, recent_uncles, block, i) ==
    IF i > Len(block.uncles) THEN "ok"
    ELSE LET uncle == block.uncles[i]
         IN  IF uncle.hash \in recent_ancestors
             THEN "Duplicate uncle"
             ELSE IF uncle.parent_hash \notin recent_ancestors
                     \/ uncle.parent_hash = block.parent_hash
             THEN "Uncle's parent is not an ancestor"
             ELSE validate_uncle_from(recent_ancestors,
                                      Append(recent_uncles, uncle.hash), block, i + 1)

\* Chain.validate_uncles; recent_ancestors is the set of keys of the dict
validate_uncles(chain, block) ==
    LET ancestors == get_ancestors(chain, Len(chain), MAX_UNCLE_DEPTH + 1)
        recent_ancestors == { ancestors[i].hash : i \in DOMAIN ancestors } \cup {block.hash}
        recent_uncles ==
            Append(Concat([i \in DOMAIN ancestors |->
                              [k \in DOMAIN ancestors[i].uncles |-> ancestors[i].uncles[k].hash]]),
                   block.hash)
    IN  validate_uncle_from(recent_ancestors, recent_uncles, block, 1)

\* the uncles a miner may put into a block: up to MAX_UNCLES of the stale
\* headers there are when it is mined (a header is older than the block that
\* includes it: the hash of the block covers it), the header of the first
\* mined block and the orphan
UncleHeaders(chain) ==
    { stale_header(k) : k \in 1..Len(chain) }
    \cup { header_of(chain[k]) : k \in DOMAIN chain \cap {2} }
    \cup { OrphanHeader }

UncleLists(chain) ==
    UNION { [1..n -> UncleHeaders(chain)] : n \in 0..MAX_UNCLES }

InitUncles ==
    /\ pc = "idle"
    /\ pipeline = "chain"
    /\ tx = NoTransaction
    /\ state = <<GenesisBlock>>
    /\ frames = <<>>
    /\ result = <<>>
    /\ log_counter = 0
    /\ steps = 0
    /\ ghost = NoGhost
    /\ held = [block |-> GenesisBlock, outcome |-> "none"]

\* Chain.mine_block: validate_block, then the block becomes the canonical head
MineBlock ==
    /\ Len(state) < MaxChain
    /\ \E uncles \in UncleLists(state) :
          LET block == [hash |-> block_hash(Len(state)),
                        parent_hash |-> state[Len(state)].hash,
                        block_number |-> Len(state),
                        uncles |-> uncles]
              outcome == validate_uncles(state, block)
          IN  /\ state' = IF outcome = "ok" THEN Append(state, block) ELSE state
              /\ held' = [block |-> block, outcome |-> outcome]
    /\ UNCHANGED <<pc, pipeline, tx, frames, result, log_counter, steps, ghost>>

NextUncles == MineBlock

SpecUncles == InitUncles /\ [][NextUncles]_vars

----------------------------------------------------------------------------
(* SpecTxPool: the TxPool (trinity/tx_pool/pool.py) relaying the              *)
(* Transactions messages of the peers of its pool.  In this specification     *)
(* state is [bloom, received, sent]: bloom is the set of entries the Bloom    *)
(* filter answers "in" for, received the set of <<peer, tx>> the pool got     *)
(* in a message, sent the number of times each tx was handed to each peer.    *)
(* A peer stands for its remote, a transaction for its hash.                  *)

PoolPeers == { "peer1", "peer2", "peer3" }
PoolTxs == { 1, 2 }

construct_bloom_entry(peer, t) == <<peer, t>>

BloomEntries == { construct_bloom_entry(peer, t) : peer \in PoolPeers, t \in PoolTxs }

\* _add_txs_to_bloom
add_txs_to_bloom(bloom, peer, txs) ==
    bloom \cup { construct_bloom_entry(peer, txs[i]) : i \in DOMAIN txs }

\* _filter_tx_for_peer
filter_tx_for_peer(bloom, peer, txs) ==
    SelectSeq(txs, LAMBDA val : construct_bloom_entry(peer, val) \notin bloom)

occurrences(txs, t) == Cardinality({ i \in DOMAIN txs : txs[i] = t })

\* _handle_tx: every peer of the pool but the sender is handled on its own,
\* the entries of one peer say nothing about another
handle_tx(pool, peer, txs) ==
    LET bloom == add_txs_to_bloom(pool.bloom, peer, txs)
        filtered_tx == [receiving_peer \in PoolPeers |->
                           IF receiving_peer = peer THEN <<>>
                           ELSE filter_tx_for_peer(bloom, receiving_peer, txs)]
    IN  [bloom |-> bloom \cup UNION { add_txs_to_bloom({}, r, filtered_tx[r]) : r \in PoolPeers },
         received |-> pool.received \cup { <<peer, txs[i]>> : i \in DOMAIN txs },
         sent |-> [e \in BloomEntries |->
                      pool.sent[e] + occurrences(filtered_tx[e[1]], e[2])]]

TxLists == UNION { [1..n -> PoolTxs] : n \in 1..MaxTxList }

InitTxPool ==
    /\ pc = "idle"
    /\ pipeline = "txpool"
    /\ tx = NoTransaction
    /\ state = [bloom |-> {}, received |-> {}, sent |-> [e \in BloomEntries |-> 0]]
    /\ frames = <<>>
    /\ result = <<>>
    /\ log_counter = 0
    /\ steps = 0
    /\ ghost = NoGhost
    /\ held = <<>>

\* _run takes a Transactions message of a peer off the queue: _handle_tx.
\* The Bloom filter may answer "in" for an entry that was never added:
\* collided is what the bits set so far make it answer so.
HandleTx ==
    /\ \E peer \in PoolPeers, txs \in TxLists, collided \in SUBSET BloomEntries :
          /\ Cardinality(collided) <= 1
          /\ state' = handle_tx([state EXCEPT !.bloom = @ \cup collided], peer, txs)
    /\ UNCHANGED <<pc, pipeline, tx, frames, result, log_counter, steps, ghost, held>>

NextTxPool == HandleTx

SpecTxPool == InitTxPool /\ [][NextTxPool]_vars

----------------------------------------------------------------------------
(* SpecChain: a Chain class configured with a few VM variants (evm/chain.py) *)
(* In this specification state is the chain, [vms_by_range, world, blocks]:  *)
(* the configured mapping, the State over the chain's db and the blocks      *)
(* persisted in the db; result holds the outcome of the last call.           *)

\* sorted(vm_configuration, key=itemgetter(0))
RECURSIVE insert_by_start(_, _)
insert_by_start(pair, seq) ==
    IF seq = <<>> THEN <<pair>>
    ELSE IF pair[1] < seq[1][1] THEN <<pair>> \o seq
    ELSE IF pair[1] = seq[1][1] THEN <<pair>> \o Tail(seq)
    ELSE <<seq[1]>> \o insert_by_start(pair, Tail(seq))

RECURSIVE generate_vms_by_range(_)
generate_vms_by_range(vm_configuration) ==
    IF vm_configuration = <<>> THEN <<>>
    ELSE insert_by_start(vm_configuration[Len(vm_configuration)],
                         generate_vms_by_range(SubSeq(vm_configuration, 1,
                                                      Len(vm_configuration) - 1)))

VMNotFound == "VMNotFound"

RECURSIVE scan_reversed_exclusive(_, _, _)
scan_reversed_exclusive(vms_by_range, i, block_number) ==
    IF i = 0 THEN VMNotFound
    ELSE IF block_number > vms_by_range[i][1] THEN vms_by_range[i][2]
    ELSE scan_reversed_exclusive(vms_by_range, i - 1, block_number)

\* for n in reversed(self.vms_by_range.keys()): if block_number >= n: return
RECURSIVE scan_reversed(_, _, _)
scan_reversed(vms_by_range, i, block_number) ==
    IF i = 0 THEN VMNotFound
    ELSE IF block_number >= vms_by_range[i][1] THEN vms_by_range[i][2]
    ELSE scan_reversed(vms_by_range, i - 1, block_number)

get_vm_class_for_block_number(vms_by_range, block_number) ==
    scan_reversed(vms_by_range, Len(vms_by_range), block_number)

\* the configurations a chain is built from: the mainnet shape with the
\* fork blocks H < E, given in any order, with or without a variant for 0
ForkBlocks == { <<h, e>> \in (1..(MaxBlock - 1)) \X (2..MaxBlock) : h < e }

VMConfigurations ==
    UNION { { << <<0, "FrontierVM">>, <<f[1], "HomesteadVM">>, <<f[2], "EIP150VM">> >>,
              << <<f[2], "EIP150VM">>, <<0, "FrontierVM">>, <<f[1], "HomesteadVM">> >>,
              << <<f[1], "HomesteadVM">>, <<f[2], "EIP150VM">> >> } : f \in ForkBlocks }

EmptyState == [state_root |-> BLANK_ROOT_HASH, db |-> EmptyDB]

\* genesis_state: address -> balance, nonce, code, storage
GenesisAllocations ==
    { <<>>,
      << [address |-> ADDR_A, balance |-> 5, nonce |-> 0, code |-> CODE_A,
          storage |-> << <<pad32(SLOT0), <<1>>>> >>] >>,
      << [address |-> ADDR_B, balance |-> 0, nonce |-> 1, code |-> <<>>,
          storage |-> << <<pad32(SLOT0), <<0>>>> >>] >>,
      << [address |-> ADDR_A, balance |-> 5, nonce |-> 0, code |-> CODE_A,
          storage |-> << <<pad32(SLOT0), <<1>>>> >>],
         [address |-> SENDER, balance |-> 400000, nonce |-> 0, code |-> <<>>,
          storage |-> <<>>] >> }

RECURSIVE set_storage_items(_, _, _)
set_storage_items(st, account, items) ==
    IF items = <<>> THEN st
    ELSE set_storage_items(set_storage(st, account, items[1][1], items[1][2]),
                           account, Tail(items))

\* the loop of from_genesis over genesis_state.items()
RECURSIVE populate(_, _)
populate(st, genesis_state) ==
    IF genesis_state = <<>> THEN st
    ELSE LET a == genesis_state[1]
             st1 == set_balance(st, a.address, a.balance)
             st2 == set_nonce(st1, a.address, a.nonce)
             st3 == set_code(st2, a.address, a.code)
         IN  populate(set_storage_items(st3, a.address, a.storage), Tail(genesis_state))

\* genesis_params without a state_root
NoRoot == [given |-> FALSE, root |-> BLANK_ROOT_HASH]

NoHeader == [block_number |-> -1, state_root |-> BLANK_ROOT_HASH]

from_genesis_unchecked(chain, declared, genesis_state) ==
    LET state_db == populate(chain.world, genesis_state)
        root_hash == state_db.state_root
        state_root == IF ~declared.given THEN root_hash ELSE declared.root
        genesis_header == [block_number |-> 0, state_root |-> state_root]
        vm == get_vm_class_for_block_number(chain.vms_by_range, 0)
    IN  IF vm = VMNotFound
        THEN [chain |-> [chain EXCEPT !.world = state_db],
              raised |-> VMNotFound, header |-> genesis_header]
        ELSE [chain |-> [chain EXCEPT !.world = state_db,
                                      !.blocks = Append(@, genesis_header)],
              raised |-> "none", header |-> genesis_header]

\* Chain.from_genesis(db, genesis_params, genesis_state); declared is
\* genesis_params['state_root'], NoRoot when the key is missing
from_genesis(chain, declared, genesis_state) ==
    LET state_db == populate(chain.world, genesis_state)
        root_hash == state_db.state_root
        state_root == IF ~declared.given THEN root_hash ELSE declared.root
        genesis_header == [block_number |-> 0, state_root |-> state_root]
        vm == get_vm_class_for_block_number(chain.vms_by_range, 0)
    IN  IF declared.given /\ declared.root # root_hash
        THEN [chain |-> [chain EXCEPT !.world = state_db],
              raised |-> "ValidationError", header |-> NoHeader]
        ELSE IF vm = VMNotFound
        THEN [chain |-> [chain EXCEPT !.world = state_db],
              raised |-> VMNotFound, header |-> genesis_header]
        ELSE [chain |-> [chain EXCEPT !.world = state_db,
                                      !.blocks = Append(@, genesis_header)],
              raised |-> "none", header |-> genesis_header]

\* the state roots genesis_params may declare
DeclaredRoots ==
    {NoRoot} \cup { [given |-> TRUE, root |-> populate(EmptyState, g).state_root] :
                        g \in GenesisAllocations }

NoCall == [op |-> "none", block_number |-> -1, vm |-> VMNotFound,
           declared |-> NoRoot, genesis_state |-> <<>>, raised |-> "none",
           header |-> NoHeader, vm_configuration |-> <<>>]

InitChain ==
    \E vm_configuration \in VMConfigurations :
        /\ pc = "idle"
        /\ pipeline = "none"
        /\ tx = NoTransaction
        /\ state = [vms_by_range |-> generate_vms_by_range(vm_configuration),
                    world |-> EmptyState, blocks |-> <<>>]
        /\ frames = <<>>
        /\ result = <<[NoCall EXCEPT !.vm_configuration = vm_configuration]>>
        /\ log_counter = 0
        /\ steps = 0
        /\ ghost = NoGhost
        /\ held = PinnedHeld

GetVMClassForBlockNumber ==
    /\ \E block_number \in 0..MaxBlock :
        result' = <<[result[1] EXCEPT
                        !.op = "get_vm_class_for_block_number",
                        !.block_number = block_number,
                        !.vm = get_vm_class_for_block_number(state.vms_by_range,
                                                             block_number)]>>
    /\ UNCHANGED <<pc, pipeline, tx, state, frames, log_counter, steps, ghost, held>>

\* called on a fresh db
FromGenesis ==
    /\ state.world = EmptyState
    /\ state.blocks = <<>>
    /\ \E declared \in DeclaredRoots, genesis_state \in GenesisAllocations :
        LET out == from_genesis(state, declared, genesis_state)
        IN  /\ state' = out.chain
            /\ result' = <<[result[1] EXCEPT
                                !.op = "from_genesis", !.declared = declared,
                                !.genesis_state = genesis_state,
                                !.raised = out.raised, !.header = out.header]>>
    /\ UNCHANGED <<pc, pipeline, tx, frames, log_counter, steps, ghost, held>>

NextChain ==
    \/ GetVMClassForBlockNumber
    \/ FromGenesis

SpecChain == InitChain /\ [][NextChain]_vars

----------------------------------------------------------------------------
(* SpecJournal: the journaled store as tests/database/test_journal_db.py    *)
(* uses it: set, delete, snapshot and revert in any order, over a key the   *)
(* underlying store holds from the start and a key it does not.  held keeps *)
(* the snapshots still valid, each with what every key read as when it was  *)
(* taken, and expect, the contents sets and deletes should have left.       *)

JournalValues == { <<1>>, <<2>> }

Reads(db) == [k \in StateKeys |-> db_get(db, k)]

NoJournalOp == [op |-> "none", key |-> <<>>, raised |-> FALSE, at |-> EmptyMap,
                uses |-> 0, changed |-> FALSE]

InitJournal ==
    /\ pc = "idle"
    /\ pipeline = "none"
    /\ tx = NoTransaction
    /\ state = GenesisState
    /\ frames = <<>>
    /\ result = <<>>
    /\ log_counter = 0
    /\ steps = 0
    /\ ghost = NoGhost
    /\ held = [stack |-> <<>>, writes |-> 0, last |-> NoJournalOp,
               expect |-> [k \in StateKeys |->
                              IF k \in DOMAIN GenesisState.db.kv
                              THEN GenesisState.db.kv[k] ELSE NotFound]]

JournalSet ==
    /\ held.writes < MaxWrites
    /\ \E key \in StateKeys, value \in JournalValues :
        /\ state' = [state EXCEPT !.db = db_set(@, key, value)]
        /\ held' = [held EXCEPT !.writes = @ + 1,
                                !.expect[key] = value,
                                !.last = [NoJournalOp EXCEPT !.op = "set", !.key = key,
                                                             !.changed = TRUE]]
    /\ UNCHANGED <<pc, pipeline, tx, frames, result, log_counter, steps, ghost>>

\* delete of a key that does not exist raises KeyError
JournalDelete ==
    /\ held.writes < MaxWrites
    /\ \E key \in StateKeys :
        LET found == db_exists(state.db, key)
            db == IF found THEN db_delete(state.db, key) ELSE state.db
        IN  /\ state' = [state EXCEPT !.db = db]
            /\ held' = [held EXCEPT !.writes = @ + 1,
                                    !.expect[key] = NotFound,
                                    !.last = [NoJournalOp EXCEPT
                                                 !.op = "delete", !.key = key,
                                                 !.raised = ~found,
                                                 !.changed = db # state.db]]
    /\ UNCHANGED <<pc, pipeline, tx, frames, result, log_counter, steps, ghost>>

JournalSnapshot ==
    /\ record_id(state.db) <= MaxSnapshots
    /\ state' = [state EXCEPT !.db = journal_snapshot(@)]
    /\ held' = [held EXCEPT
                    !.stack = Append(@, [snap |-> journal_snapshot_id(state.db),
                                         at |-> Reads(state.db),
                                         expect |-> held.expect,
                                         uses |-> 0]),
                    !.last = [NoJournalOp EXCEPT !.op = "snapshot"]]
    /\ UNCHANGED <<pc, pipeline, tx, frames, result, log_counter, steps, ghost>>

\* revert to any snapshot still valid: the snapshots taken after it are gone
JournalRevert ==
    /\ \E i \in DOMAIN held.stack :
        LET h == held.stack[i]
            db == journal_revert(state.db, h.snap)
        IN  /\ h.uses < MaxWrites
            /\ state' = [state EXCEPT !.db = db]
            /\ held' = [held EXCEPT
                            !.stack = Append(SubSeq(@, 1, i - 1),
                                             [h EXCEPT !.uses = @ + 1]),
                            !.expect = h.expect,
                            !.last = [NoJournalOp EXCEPT
                                         !.op = "revert", !.at = h.at,
                                         !.uses = h.uses + 1,
                                         !.changed = Reads(db) # Reads(state.db)]]
    /\ UNCHANGED <<pc, pipeline, tx, frames, result, log_counter, steps, ghost>>

NextJournal ==
    \/ JournalSet
    \/ JournalDelete
    \/ JournalSnapshot
    \/ JournalRevert

SpecJournal == InitJournal /\ [][NextJournal]_vars

----------------------------------------------------------------------------
(* SpecStorage: State.set_storage / get_storage as SSTORE and SLOAD use     *)
(* them, under every sequence of stores to a few slots of two accounts.     *)

StorageAddresses == { ADDR_A, ADDR_B }
StorageSlots == { <<0>>, <<1>>, <<0, 1>> }
StorageValues == { <<>>, <<0>>, <<0, 0>>, <<1>>, <<0, 2>>, <<200>> }

\* SLOAD (evm/logic/storage.py)
sload(st, address, slot) == get_storage(st, address, pad32(slot))

\* the set_storage call of SSTORE
SetStorage ==
    /\ pc = "idle"
    /\ Len(ghost.stores) < MaxWrites
    /\ \E address \in StorageAddresses, slot \in StorageSlots, value \in StorageValues :
        /\ state' = set_storage(state, address, pad32(slot), value)
        /\ ghost' = [ghost EXCEPT !.stores =
                         Append(@, [address |-> address, slot |-> slot, value |-> value])]
    /\ UNCHANGED <<pc, pipeline, tx, frames, result, log_counter, steps, held>>

NextStorage == SetStorage

SpecStorage == Init /\ [][NextStorage]_vars

----------------------------------------------------------------------------
(* SpecDepth: the innermost frames of a call stack that is about to reach   *)
(* the depth limit.  A message of a Frontier transaction is applied at a    *)
(* depth next to the limit, as the 1023rd or 1024th nested CALL does; the   *)
(* frames under it are left out, and the run ends when its frame returns.   *)

DeepStarts == { STACK_DEPTH_LIMIT - 2, STACK_DEPTH_LIMIT - 1,
                STACK_DEPTH_LIMIT, STACK_DEPTH_LIMIT + 1 }

DeepTransaction == Transaction(SENDER, ADDR_A, 1, 150000, 2, 0, <<>>)

InitDepth ==
    \E d \in DeepStarts :
        LET pre == execute_frontier_transaction_pre(GenesisState, DeepTransaction)
            msg == [pre.message EXCEPT !.depth = d]
            cfg == Enter([frames |-> <<>>, state |-> pre.state, result |-> <<>>,
                          ghost |-> NoGhost, raised |-> NoError, crashed |-> FALSE],
                         msg, FALSE)
        IN  /\ pc = (IF cfg.raised # NoError THEN "aborted" ELSE "running")
            /\ pipeline = "frontier"
            /\ tx = DeepTransaction
            /\ state = cfg.state
            /\ frames = cfg.frames
            /\ result = cfg.result
            /\ log_counter = 0
            /\ steps = 0
            /\ ghost = cfg.ghost
            /\ held = PinnedHeld

NextDepth ==
    \/ OpSSTORE
    \/ OpLOG
    \/ OpCALL
    \/ OpCREATE
    \/ OpSELFDESTRUCT
    \/ OpRETURN
    \/ OpINVALID

SpecDepth == InitDepth /\ [][NextDepth]_vars

----------------------------------------------------------------------------
(* Properties *)

\* C1: for every call or create frame that ends in an error, the world that
\* can be read after the frame returns (every account's balance, nonce,
\* storage and code) equals the world at the frame's entry.
C1_ErroredFrameRestoresEntryState ==
    ghost.exit.errored => ghost.exit.after = ghost.exit.entry

\* the same, of the frames _apply_message alone applies
C1_ErroredCallFrameRestoresEntryState ==
    (ghost.exit.errored /\ ~ghost.exit.is_create) => ghost.exit.after = ghost.exit.entry

\* an errored call frame has returned after a write under it
C1_Witness_CallFrameWroteThenFailed ==
    /\ ghost.exit.errored
    /\ ~ghost.exit.is_create
    /\ ghost.last = "INVALID"
    /\ steps > 0

\* C2: snapshots nest as a stack: a revert to a snapshot discards in one step
\* every change made after it was taken, those made under later snapshots
\* that were since committed or reverted included; after the revert the
\* state root and every key read are what they were at the snapshot.
C2_RevertRestoresSnapshot ==
    held.last.op = "revert" => held.last.after = held.last.at

\* a revert to an outer snapshot under which one inner snapshot was reverted
\* and another committed, with changes, and both the root and a key had moved
C2_Witness_OuterRevertOverSettledInner ==
    /\ held.last.op = "revert"
    /\ held.last.inner_committed
    /\ held.last.inner_reverted
    /\ held.last.before.root # held.last.at.root
    /\ held.last.before.reads # held.last.at.reads

\* a frame whose effects survive: it did not fail, nor did any of its ancestors
RECURSIVE frame_survives(_)
frame_survives(fid) ==
    fid = 0 \/ (fid \notin ghost.failed /\ frame_survives(ghost.parent[fid]))

RECURSIVE net_value_out(_, _)
\* the value the surviving frames moved out of the address, less what they moved in
net_value_out(transfers, address) ==
    IF transfers = <<>> THEN 0
    ELSE LET t == Head(transfers)
             counts == frame_survives(t.fid)
         IN  (IF counts /\ t.from = address THEN t.value ELSE 0)
             - (IF counts /\ t.to = address THEN t.value ELSE 0)
             + net_value_out(Tail(transfers), address)

balance_change(address) == get_balance(state, address) - get_balance(ghost.pre, address)

\* C3 (as amended): for every executed transaction the sender's balance
\* changes by -(gas_used - gas_refund) * gas_price less the net value moved
\* out of its account (what surviving frames sent from it, less what they
\* sent to it), and the pre-charged gas_limit * gas_price is split exactly between the
\* sender's credit (remaining + gas_refund) * gas_price and the coinbase's
\* credit (gas_limit - remaining - gas_refund) * gas_price: fee settlement
\* creates and loses no wei.
C3_FeeSettlementIsExact ==
    pc = "done" =>
        LET remaining == ghost.fee.gas_remaining
            gas_refund == ghost.fee.gas_refund
            gas_used == tx.gas - remaining
            sender_credit == (remaining + gas_refund) * tx.gas_price
            coinbase_credit == (tx.gas - remaining - gas_refund) * tx.gas_price
        IN  /\ balance_change(tx.sender) =
                   - ((gas_used - gas_refund) * tx.gas_price)
                   - net_value_out(ghost.transfers, tx.sender)
            /\ balance_change(COINBASE) =
                   coinbase_credit - net_value_out(ghost.transfers, COINBASE)
            /\ sender_credit + coinbase_credit = tx.gas * tx.gas_price
            /\ balance_change(tx.sender) + balance_change(COINBASE)
                   + net_value_out(ghost.transfers, tx.sender)
                   + net_value_out(ghost.transfers, COINBASE) = 0

\* a settled transaction with gas left and a refund realized, whose value
\* went out and came back to the sender from a nested call
C3_Witness_SettledWithRefundAndValueReturned ==
    /\ pc = "done"
    /\ ghost.fee.gas_refund > 0
    /\ ghost.fee.gas_remaining > 0
    /\ frame_survives(1)
    /\ tx.value > 0
    /\ net_value_out(ghost.transfers, tx.sender) < tx.value

\* C3 (as stated): the sender's balance changes by
\* -(gas_used - gas_refund) * gas_price less the value the transaction
\* transferred out, and the pre-charge is split exactly between the sender's
\* and the coinbase's credit.
C3_SenderChangeIsFeePlusValue ==
    pc = "done" =>
        LET remaining == ghost.fee.gas_remaining
            gas_refund == ghost.fee.gas_refund
            gas_used == tx.gas - remaining
            value_out == IF frame_survives(1) THEN tx.value ELSE 0
        IN  /\ balance_change(tx.sender) =
                   - ((gas_used - gas_refund) * tx.gas_price) - value_out
            /\ (remaining + gas_refund) * tx.gas_price
                   + (tx.gas - remaining - gas_refund) * tx.gas_price
                   = tx.gas * tx.gas_price

\* C4: at the end of every transaction the realized refund is
\* min(refund counter of the computation tree
\*     + REFUND_SELFDESTRUCT * number of accounts deleted, gas_used // 2)
\* with gas_used = gas_limit - remaining; so it never exceeds half of
\* gas_used, and gas_used never exceeds gas_limit.
C4_RealizedRefund ==
    pc = "done" =>
        LET gas_used == tx.gas - ghost.fee.gas_remaining
            deleted == get_accounts_for_deletion(ghost.top[1])
            counter == get_gas_refund(ghost.top[1])
                       + REFUND_SELFDESTRUCT * Len(deleted)
        IN  /\ ghost.fee.gas_refund = Min(counter, gas_used \div 2)
            /\ 2 * ghost.fee.gas_refund <= gas_used
            /\ gas_used <= tx.gas
            /\ ghost.fee.gas_used = gas_used

\* the address reads the same as before the transaction
untouched(address) ==
    /\ account_exists(state, address) <=> account_exists(ghost.pre, address)
    /\ get_account(state, address) = get_account(ghost.pre, address)
    /\ get_code(state, address) = get_code(ghost.pre, address)

Addresses == DOMAIN state.state_root \cup DOMAIN ghost.pre.state_root

\* C5: a transaction whose top-level frame fails with a burning error still
\* leaves the sender's nonce incremented by one and pays the coinbase the
\* full gas_limit * gas_price; it transfers no value to the recipient,
\* deletes no account and reports no logs.
C5_FailedTransactionStillPays ==
    (pc = "done" /\ should_burn_gas(ghost.top[1])) =>
        /\ get_nonce(state, tx.sender) = get_nonce(ghost.pre, tx.sender) + 1
        /\ balance_change(COINBASE) = tx.gas * tx.gas_price
        /\ balance_change(tx.sender) = - (tx.gas * tx.gas_price)
        /\ \A a \in Addresses \ {tx.sender, COINBASE} : untouched(a)
        /\ DOMAIN ghost.pre.state_root \subseteq DOMAIN state.state_root
        /\ get_log_entries(result[1]) = <<>>

\* a transaction that moved value, logged and ran SELFDESTRUCT before its
\* top-level frame failed
C5_Witness_FailedAfterValueLogAndSelfdestruct ==
    /\ pc = "done"
    /\ should_burn_gas(ghost.top[1])
    /\ tx.value > 0
    /\ ghost.emitted # <<>>
    /\ ghost.destructed # {}

\* C6: a transaction rejected before execution (bad nonce, gas limit below
\* the intrinsic gas, balance unable to cover gas_limit * gas_price + value)
\* changes nothing: every account reads as before the attempt.
C6_RejectedTransactionChangesNothing ==
    (pc = "rejected" \/ (pc = "aborted" /\ ghost.nframes = 0)) =>
        World(state) = World(ghost.pre)

\* the Frontier pipeline has rejected a transaction
C6_Witness_FrontierRejected ==
    pc = "rejected" /\ pipeline = "frontier"

RECURSIVE subtree(_)
subtree(c) == {c} \cup UNION { subtree(c.children[i]) : i \in DOMAIN c.children }

\* every computation there is: the live frames, the finished one, their children
Computations ==
    UNION { subtree(frames[i].comp) : i \in DOMAIN frames }
    \cup UNION { subtree(result[i]) : i \in DOMAIN result }

\* C7: for every frame that ended with a burning error get_gas_remaining()
\* is 0 and get_gas_used() is the full msg.gas, whatever the meter held when
\* the error was raised (errors set on a frame that never ran included); for
\* every other frame get_gas_used() is msg.gas less the meter's remaining gas.
C7_GasOfBurnedFrames ==
    \A c \in Computations :
        IF c.error # NoError /\ c.error.burns_gas
        THEN get_gas_remaining(c) = 0 /\ get_gas_used(c) = c.msg.gas
        ELSE get_gas_used(c) = c.msg.gas - c.gas_remaining

\* a frame given an error without having run: its meter is still full
C7_Witness_ErrorSetWithFullMeter ==
    \E c \in Computations :
        /\ c.error # NoError
        /\ c.error.burns_gas
        /\ c.gas_remaining = c.msg.gas
        /\ c.msg.gas > 0

\* the LOG executions whose frame survives, in the order they ran
surviving_entries ==
    LET survives(e) == frame_survives(e.fid)
        kept == SelectSeq(ghost.emitted, survives)
    IN  [i \in DOMAIN kept |-> kept[i].entry]

\* C8: the log entries reported for the transaction are exactly those
\* emitted by LOG executions in frames that succeeded and all of whose
\* ancestors succeeded: none from an errored frame or from below one, and
\* none of a successful subtree lost or duplicated.
C8_ReportedLogsAreSurvivingLogs ==
    result # <<>> =>
        LET reported == private_get_log_entries(result[1])
            expected == { surviving_entries[i] : i \in DOMAIN surviving_entries }
        IN  /\ { reported[i] : i \in DOMAIN reported } = expected
            /\ Len(reported) = Cardinality(expected)
            /\ get_log_entries(result[1]) = [i \in DOMAIN reported |-> Tail(reported[i])]

\* the top frame succeeded and logged; below it a frame failed after a
\* successful frame under it had logged
C8_Witness_LogsUnderFailedFrameDropped ==
    /\ result # <<>>
    /\ \E i \in DOMAIN ghost.emitted : ghost.emitted[i].fid = 1 /\ frame_survives(1)
    /\ \E i \in DOMAIN ghost.emitted :
           /\ ghost.emitted[i].fid \notin ghost.failed
           /\ ~frame_survives(ghost.emitted[i].fid)

\* C9: the reported log stream is in the order in which the LOG opcodes
\* executed across all frames: each emitted entry takes the next value of
\* one counter shared by the frames of the transaction, the counters of the
\* reported entries are strictly increasing, and what a parent emitted before
\* and after a child call surrounds what the child emitted.
C9_ReportedLogsInExecutionOrder ==
    /\ \A i \in DOMAIN ghost.emitted : ghost.emitted[i].entry[1] = i - 1
    /\ log_counter = Len(ghost.emitted)
    /\ result # <<>> =>
           LET reported == private_get_log_entries(result[1])
           IN  /\ reported = surviving_entries
               /\ \A i, j \in DOMAIN reported : i < j => reported[i][1] < reported[j][1]

\* a parent logged, called a child that logged, and logged again: all three
\* entries are reported
C9_Witness_ParentEntriesSurroundChilds ==
    /\ result # <<>>
    /\ Len(ghost.emitted) = 3
    /\ Len(private_get_log_entries(result[1])) = 3
    /\ ghost.emitted[1].fid = ghost.emitted[3].fid
    /\ ghost.emitted[2].fid # ghost.emitted[1].fid
    /\ ghost.parent[ghost.emitted[2].fid] = ghost.emitted[1].fid

\* C10: account deletions are applied strictly after the top-level
\* computation completes: a contract that executed SELFDESTRUCT keeps its
\* account (code, storage, balance), stays callable and can still receive
\* value for the rest of the transaction; it is removed from the state only
\* in the post-execution step.
C10_DeletionOnlyAfterExecution ==
    /\ pc \in {"running", "post"} =>
           /\ DOMAIN ghost.pre.state_root \subseteq DOMAIN state.state_root
           /\ \A a \in ghost.destructed \cap DOMAIN ghost.pre.state_root :
                  get_code(state, a) = get_code(ghost.pre, a)
           /\ ghost.last = "SELFDESTRUCT" =>
                  /\ account_exists(state, ghost.kept.address) = ghost.kept.existed
                  /\ get_account(state, ghost.kept.address) = ghost.kept.account
    /\ pc = "done" =>
           LET deleted == get_accounts_for_deletion(ghost.top[1])
           IN  /\ \A i \in DOMAIN deleted : ~account_exists(state, deleted[i][1])
               /\ \A a \in DOMAIN ghost.pre.state_root :
                      account_exists(state, a)
                      \/ \E i \in DOMAIN deleted : deleted[i][1] = a

\* a contract that ran SELFDESTRUCT is running again, called with value
\* after it did
C10_Witness_CalledWithValueAfterSelfdestruct ==
    /\ pc = "running"
    /\ ADDR_B \in ghost.destructed
    /\ Len(frames) = 2
    /\ storage_address(Top.msg) = ADDR_B
    /\ Top.msg.code = CODE_B
    /\ get_balance(state, ADDR_B) = 2

RECURSIVE sum_balances(_, _)
sum_balances(root, addresses) ==
    IF addresses = {} THEN 0
    ELSE LET a == CHOOSE x \in addresses : TRUE
         IN  root[a].balance + sum_balances(root, addresses \ {a})

\* all the wei there is
total_balance(st) == sum_balances(st.state_root, DOMAIN st.state_root)

\* C11: at the end of a transaction each registered (addr, beneficiary) has
\* the beneficiary credited with addr's balance before addr is zeroed and
\* deleted: the deletions leave the total of all balances unchanged, and a
\* beneficiary that is not itself deleted holds at least what it held plus
\* the balance of the account deleted in its favour.
C11_SettlementConservesWei ==
    pc = "done" =>
        LET dels == get_accounts_for_deletion(ghost.top[1])
            deleted == { dels[i][1] : i \in DOMAIN dels }
        IN  /\ total_balance(state) = total_balance(ghost.settle)
            /\ \A i \in DOMAIN dels :
                   dels[i][2] \notin deleted =>
                       get_balance(state, dels[i][2]) >=
                           get_balance(ghost.settle, dels[i][2])
                           + get_balance(ghost.settle, dels[i][1])

\* a transaction has ended with the deletion of an account that held wei
C11_Witness_DeletedAccountHeldWei ==
    /\ pc = "done"
    /\ \E i \in DOMAIN get_accounts_for_deletion(ghost.top[1]) :
           get_balance(ghost.settle, get_accounts_for_deletion(ghost.top[1])[i][1]) > 0

\* the frames that have not returned yet
Live == { frames[i].comp.fid : i \in DOMAIN frames }

\* the frame is the root frame, or a frame below it that has returned to it
\* through frames that have returned, and neither it nor a frame between it
\* and the root failed
RECURSIVE survives_under(_, _)
survives_under(fid, root) ==
    /\ fid # 0
    /\ fid \notin ghost.failed
    /\ (fid = root \/ (fid \notin Live /\ survives_under(ghost.parent[fid], root)))

\* the registrations that count for the frame, in the order they were made:
\* a frame registers as it halts, after its children have returned
surviving_registrations(root) ==
    LET counts(r) == survives_under(r.fid, root)
    IN  SelectSeq(ghost.registered, counts)

post_order_pairs(root) ==
    LET sr == surviving_registrations(root)
    IN  [i \in DOMAIN sr |-> sr[i].pair]

RECURSIVE in_entry_order(_, _)
\* the same registrations by the order in which their frames were entered
in_entry_order(sr, fid) ==
    IF fid > ghost.nframes THEN <<>>
    ELSE (IF \E i \in DOMAIN sr : sr[i].fid = fid
          THEN <<sr[CHOOSE i \in DOMAIN sr : sr[i].fid = fid].pair>>
          ELSE <<>>)
         \o in_entry_order(sr, fid + 1)

pre_order_pairs(root) == in_entry_order(surviving_registrations(root), 1)

RECURSIVE once_per_address(_, _)
\* each address once, where it first stands, with the beneficiary it was last given
once_per_address(pairs, i) ==
    IF i > Len(pairs) THEN <<>>
    ELSE IF \E j \in 1..(i - 1) : pairs[j][1] = pairs[i][1]
    THEN once_per_address(pairs, i + 1)
    ELSE LET last == CHOOSE j \in DOMAIN pairs :
                        /\ pairs[j][1] = pairs[i][1]
                        /\ \A k \in DOMAIN pairs : k > j => pairs[k][1] # pairs[i][1]
         IN  <<<<pairs[i][1], pairs[last][2]>>>> \o once_per_address(pairs, i + 1)

\* C12 (as amended): get_accounts_for_deletion() of a frame lists the
\* registrations of the frame and of its descendants in pre-order (the
\* frame's own first, then those of its children in call order), each
\* storage address once, at its first position and with the beneficiary of
\* its last registration; it is empty when the frame errored, and what was
\* registered in or below an errored descendant is left out.
C12_DeletionsArePreOrder ==
    \A c \in Computations :
        /\ get_accounts_for_deletion(c) = once_per_address(pre_order_pairs(c.fid), 1)
        /\ is_error(c) => get_accounts_for_deletion(c) = <<>>

\* C12 (as stated): the same list is the post-order flattening: the
\* registrations of the descendants before the frame's own.
C12_DeletionsArePostOrder ==
    \A c \in Computations :
        /\ get_accounts_for_deletion(c) = once_per_address(post_order_pairs(c.fid), 1)
        /\ is_error(c) => get_accounts_for_deletion(c) = <<>>

\* the top frame registered the address a frame below it had registered,
\* with another beneficiary: the address is listed once, with the beneficiary
\* the child gave
C12_Witness_DuplicateRegistration ==
    /\ result # <<>>
    /\ Len(ghost.registered) = 2
    /\ ghost.registered[2].fid = 1
    /\ ghost.registered[1].pair[1] = ghost.registered[2].pair[1]
    /\ ghost.registered[1].pair[2] # ghost.registered[2].pair[2]
    /\ get_accounts_for_deletion(result[1]) = <<ghost.registered[1].pair>>

\* the balance an account has under a state root
balance_under(root, address) ==
    IF address \in DOMAIN root THEN root[address].balance ELSE 0

\* C13: a message applied at depth >= 1024 fails with StackDepthLimit, and
\* only such a message does; its application leaves every account as it
\* was (no value is transferred); a child's depth is its parent's depth + 1
\* and no frame runs code at depth 1024 or more.
C13_DepthLimit ==
    /\ \A i \in DOMAIN frames : frames[i].comp.msg.depth < STACK_DEPTH_LIMIT
    /\ \A i \in DOMAIN frames :
           i > 1 => frames[i].comp.msg.depth = frames[i - 1].comp.msg.depth + 1
    /\ \A c \in Computations : \A j \in DOMAIN c.children :
           /\ c.children[j].msg.depth = c.msg.depth + 1
           /\ c.children[j].msg.depth < STACK_DEPTH_LIMIT
    /\ ghost.applied.msg.depth >= STACK_DEPTH_LIMIT =>
           /\ ghost.applied.raised.kind = "StackDepthLimit"
           /\ ghost.applied.raised.burns_gas
           /\ ghost.applied.after = ghost.applied.before
    /\ ghost.applied.raised.kind = "StackDepthLimit" =>
           ghost.applied.msg.depth >= STACK_DEPTH_LIMIT

\* a frame at depth 1023 made a CALL with value: the message of depth 1024
\* was refused
C13_Witness_CallAtTheLimitRefused ==
    /\ ghost.applied.raised.kind = "StackDepthLimit"
    /\ ghost.applied.msg.depth = STACK_DEPTH_LIMIT
    /\ ghost.applied.msg.value > 0
    /\ ghost.last = "CALL"
    /\ balance_under(ghost.applied.before, ghost.applied.msg.sender) > 0

\* C14: a VM error in a child frame, one raised while the child message is
\* applied (StackDepthLimit, InsufficientFunds) included, is confined to the
\* child: the frame that made the call does not become errored by it and
\* goes on with its next opcode.
C14_ChildErrorConfinedToChild ==
    /\ ghost.blamed = {}
    /\ \A i \in DOMAIN frames : is_success(frames[i].comp)

\* a child frame failed in its own code and the frame that called it runs on
C14_Witness_ParentRunsOnAfterFailedChild ==
    /\ pc = "running"
    /\ ghost.exit.errored
    /\ ghost.last = "INVALID"
    /\ \E j \in DOMAIN Top.children : Top.children[j].fid = ghost.exit.fid

\* C15: the application of a message with value > 0 (below the depth limit)
\* fails with InsufficientFunds and changes no balance when the sender holds
\* less than value; otherwise exactly value leaves the sender and reaches
\* the storage address, no other balance moves, and a transfer from an
\* account to itself leaves its balance as it was.
C15_ValueTransfer ==
    LET a == ghost.applied
        sender == a.msg.sender
        recipient == storage_address(a.msg)
        value == a.msg.value
        everyone == DOMAIN a.before \cup DOMAIN a.after
    IN  /\ (value > 0 /\ a.msg.depth < STACK_DEPTH_LIMIT) =>
               IF balance_under(a.before, sender) < value
               THEN /\ a.raised.kind = "InsufficientFunds"
                    /\ a.after = a.before
               ELSE /\ a.raised = NoError
                    /\ \A x \in everyone \ {sender, recipient} :
                           balance_under(a.after, x) = balance_under(a.before, x)
                    /\ IF sender = recipient
                       THEN balance_under(a.after, sender) = balance_under(a.before, sender)
                       ELSE /\ balance_under(a.after, sender) =
                                   balance_under(a.before, sender) - value
                            /\ balance_under(a.after, recipient) =
                                   balance_under(a.before, recipient) + value
                    /\ sum_balances(a.after, DOMAIN a.after) =
                           sum_balances(a.before, DOMAIN a.before)
        /\ a.raised.kind = "InsufficientFunds" =>
               value > 0 /\ balance_under(a.before, sender) < value
        /\ value = 0 => a.after = a.before

\* an account called itself with value
C15_Witness_TransferToItself ==
    /\ ghost.applied.msg.value > 0
    /\ ghost.applied.msg.sender = storage_address(ghost.applied.msg)
    /\ ghost.applied.raised = NoError
    /\ pc = "running"

\* C16: when the init code of a create frame succeeds with a non-empty
\* output of length L, the frame is charged 200 * L gas and the code of the
\* new account is that output; when fewer than 200 * L gas remain the frame
\* fails with OutOfGas and the world is back at the frame's entry: no code
\* is installed and nothing the init code wrote survives.
C16_CodeDeposit ==
    LET x == ghost.exit
        L == Len(output(x.ran))
        address == storage_address(x.ran.msg)
    IN  (x.is_create /\ is_success(x.ran) /\ L > 0) =>
            IF x.ran.gas_remaining >= 200 * L
            THEN /\ is_success(x.comp)
                 /\ x.comp.gas_remaining = x.ran.gas_remaining - 200 * L
                 /\ address \in DOMAIN x.after
                 /\ x.after[address].code = output(x.ran)
            ELSE /\ is_error(x.comp)
                 /\ x.comp.error.kind = "OutOfGas"
                 /\ x.after = x.entry

\* init code stored a value and returned code it could not pay for
C16_Witness_DepositUnpaidAfterWrite ==
    /\ ghost.exit.is_create
    /\ is_success(ghost.exit.ran)
    /\ output(ghost.exit.ran) # <<>>
    /\ is_error(ghost.exit.comp)
    /\ ghost.sstore.ran
    /\ ~ghost.sstore.failed
    /\ ghost.last = "RETURN"

\* the address a creation transaction creates at
transaction_create_address ==
    generate_contract_address(tx.sender, get_nonce(GenesisState, tx.sender))

\* a creation transaction of the Frontier pipeline whose address is taken
\* fails with ContractCreationCollision: no frame ran, all the gas of the
\* message is used, nothing is refunded, the account is as it was
C17_CollisionAtTransaction ==
    (/\ pipeline = "frontier"
     /\ pc \in {"post", "done"}
     /\ tx.to = CREATE_CONTRACT_ADDRESS
     /\ account_has_code_or_nonce(GenesisState, transaction_create_address)) =>
        /\ frames = <<>>
        /\ steps = 0
        /\ ghost.applied = NoApplied
        /\ result[1].error.kind = "ContractCreationCollision"
        /\ result[1].children = <<>>
        /\ get_gas_remaining(result[1]) = 0
        /\ get_gas_used(result[1]) = result[1].msg.gas
        /\ get_gas_refund(result[1]) = 0
        /\ World(state)[transaction_create_address] =
               World(GenesisState)[transaction_create_address]
        /\ pc = "done" => ghost.fee.gas_refund = 0 /\ ghost.fee.gas_remaining = 0

\* C17: a creation at an address that already has code or a non-zero nonce
\* fails with ContractCreationCollision: no init code runs there, all the
\* gas of the message is consumed (0 remaining, no refund) and the account
\* at the address is left as it was.
C17_NoCreationOverExistingAccount ==
    /\ C17_CollisionAtTransaction
    /\ \A i \in DOMAIN frames :
           LET address == storage_address(frames[i].comp.msg)
           IN  (frames[i].is_create /\ address \in DOMAIN frames[i].entry) =>
                   /\ frames[i].entry[address].account.nonce = 0
                   /\ frames[i].entry[address].code = <<>>

\* the creation transaction of SENDER2 was refused for its taken address
C17_Witness_TransactionCollided ==
    /\ pc = "done"
    /\ tx.to = CREATE_CONTRACT_ADDRESS
    /\ result[1].error.kind = "ContractCreationCollision"
    /\ result[1].msg.gas > 0

\* the nonce an account has in a world
nonce_in(world, address) ==
    IF address \in DOMAIN world THEN world[address].account.nonce ELSE 0

\* C18: every contract creation increments the creator's nonce by exactly
\* one and creates at the address derived from the creator's nonce before
\* the increment: a create frame of a nested CREATE leaves the creator's
\* nonce one above what it was at the frame's entry, and the create frame of
\* a creation transaction, whose sender's nonce the transaction has already
\* incremented, does not increment it again.
C18_CreationIncrementsNonceOnce ==
    LET x == ghost.exit
        creator == x.ran.msg.sender
        by_transaction == x.ran.msg.sender = x.ran.msg.origin
        at_entry == nonce_in(x.entry, creator)
    IN  /\ x.is_create =>
               IF by_transaction
               THEN /\ nonce_in(x.after, creator) = at_entry
                    /\ at_entry = nonce_in(World(GenesisState), creator) + 1
                    /\ x.ran.msg.create_address =
                           generate_contract_address(creator, at_entry - 1)
               ELSE /\ nonce_in(x.after, creator) = at_entry + 1
                    /\ x.ran.msg.create_address =
                           generate_contract_address(creator, at_entry)
        /\ (pc = "done" /\ tx.to = CREATE_CONTRACT_ADDRESS) =>
               get_nonce(state, tx.sender) = get_nonce(GenesisState, tx.sender) + 1

\* the same, of the create frames that did not fail at the code deposit
C18_CreationWithoutFailedDepositIncrementsNonceOnce ==
    (is_success(ghost.exit.ran) /\ is_error(ghost.exit.comp)) \/ C18_CreationIncrementsNonceOnce

\* a nested CREATE succeeded and installed code
C18_Witness_NestedCreateInstalledCode ==
    /\ ghost.exit.is_create
    /\ ghost.exit.ran.msg.sender # ghost.exit.ran.msg.origin
    /\ is_success(ghost.exit.comp)
    /\ output(ghost.exit.comp) # <<>>
    /\ nonce_in(ghost.exit.after, ghost.exit.ran.msg.sender) = 1

\* C19: an SSTORE that can pay charges 20000 gas when the slot's current
\* value is zero and the new value is not, and 5000 gas in every other
\* case; it adds 15000 to the frame's refund counter exactly when the
\* current value is not zero and the new value is, and nothing otherwise; it
\* fails exactly when the frame holds less gas than the charge.
C19_SstoreGasAndRefund ==
    LET s == ghost.sstore
        current_zero == ZeroBytes(s.current)
        new_zero == ZeroBytes(s.value)
        charge == IF current_zero /\ ~new_zero THEN 20000 ELSE 5000
        refund == IF ~current_zero /\ new_zero THEN 15000 ELSE 0
    IN  s.ran =>
            /\ s.failed = (s.gas_before < charge)
            /\ ~s.failed =>
                   /\ s.gas_after = s.gas_before - charge
                   /\ s.refunded_after = s.refunded_before + refund

\* a slot holding a value was cleared
C19_Witness_SlotCleared ==
    /\ ghost.sstore.ran
    /\ ~ghost.sstore.failed
    /\ ~ZeroBytes(ghost.sstore.current)
    /\ ZeroBytes(ghost.sstore.value)
    /\ ghost.sstore.refunded_after = ghost.sstore.refunded_before + 15000
    /\ ghost.sstore.gas_after = ghost.sstore.gas_before - 5000

\* what the last store to a slot of an account left there: its value, or
\* nothing if that value was all zero bytes; before any store, what the
\* slot held from the start
RECURSIVE last_stored(_, _, _)
last_stored(stores, address, padded_slot) ==
    IF stores = <<>> THEN get_storage(GenesisState, address, padded_slot)
    ELSE LET e == stores[Len(stores)]
         IN  IF e.address = address /\ pad32(e.slot) = padded_slot
             THEN IF ZeroBytes(e.value) THEN <<>> ELSE e.value
             ELSE last_stored(SubSeq(stores, 1, Len(stores) - 1), address, padded_slot)

\* C20: storing a value of all zero bytes removes the slot, which then reads
\* as empty and is absent from the account's storage like a slot never
\* written; after any sequence of stores a slot reads as the last value
\* stored there if that value was not zero, and as empty otherwise.
C20_ZeroStoreRemovesSlot ==
    \A address \in StorageAddresses, slot \in StorageSlots :
        /\ sload(state, address, slot) = last_stored(ghost.stores, address, pad32(slot))
        /\ sload(state, address, slot) = <<>> <=>
               pad32(slot) \notin DOMAIN get_account(state, address).storage
        /\ (\A other \in StorageSlots : sload(state, address, other) = <<>>) =>
               get_account(state, address).storage = Account.storage

\* a value was stored in a slot of ADDR_B and zero bytes were stored over it
C20_Witness_ZeroStoredOverValue ==
    /\ Len(ghost.stores) = 2
    /\ ghost.stores[1].address = ADDR_B
    /\ ghost.stores[2].address = ADDR_B
    /\ pad32(ghost.stores[1].slot) = pad32(ghost.stores[2].slot)
    /\ ~ZeroBytes(ghost.stores[1].value)
    /\ ghost.stores[2].value = <<0, 0>>
    /\ sload(state, ADDR_B, ghost.stores[1].slot) = <<>>
    /\ get_account(state, ADDR_B) = get_account(GenesisState, ADDR_B)

\* C21: after snapshot() and any sets and deletes, revert(snapshot) makes
\* get and exists return for every key what they returned when the snapshot
\* was taken: overwritten keys have their old value, deleted keys exist
\* again, keys created after the snapshot are absent.
C21_JournalRevertRestoresReads ==
    held.last.op = "revert" =>
        \A k \in StateKeys :
            /\ db_get(state.db, k) = held.last.at[k]
            /\ db_exists(state.db, k) = (held.last.at[k] # NotFound)

\* a revert over a nested snapshot brought back a deleted key and took away
\* a created one
C21_Witness_RevertOverDeleteAndCreate ==
    /\ held.last.op = "revert"
    /\ held.last.changed
    /\ Len(held.stack) = 1
    /\ state.db.next_id > 2
    /\ held.last.at[<<10>>] = NotFound
    /\ held.last.at[keccak(CODE_A)] = CODE_A
    /\ held.writes = MaxWrites

\* C22: a key that was never set, or was deleted since it was last set,
\* reads as not found (get raises KeyError, exists is False) and deleting it
\* raises KeyError; a deletion under a snapshot keeps the key not found,
\* whatever the underlying store holds, until the key is set again or the
\* snapshot is reverted; every other key reads as the value last set.
C22_AbsentKeysAreNotFound ==
    /\ \A k \in StateKeys :
           /\ db_get(state.db, k) = held.expect[k]
           /\ db_exists(state.db, k) = (held.expect[k] # NotFound)
    /\ (held.last.op = "delete" /\ held.last.raised) => ~held.last.changed
    /\ (held.last.op = "delete" /\ ~held.last.raised) => held.last.changed

\* a key deleted under a snapshot is not found while the store under the
\* journal still holds its value, and deleting it again raised KeyError
C22_Witness_DeletedOverStoredValue ==
    /\ held.last.op = "delete"
    /\ held.last.raised
    /\ held.last.key = keccak(CODE_A)
    /\ state.db.journal # <<>>
    /\ keccak(CODE_A) \in DOMAIN state.db.kv
    /\ db_get(state.db, keccak(CODE_A)) = NotFound

\* C23: a snapshot stays usable after it was reverted to: after further
\* sets and deletes a second revert to the same snapshot restores its
\* values again, and nothing journalled before the first revert reappears.
C23_SnapshotUsableAfterRevert ==
    (held.last.op = "revert" /\ held.last.uses > 1) =>
        /\ Reads(state.db) = held.last.at
        /\ \A i \in DOMAIN state.db.journal :
               /\ state.db.journal[i].id = held.stack[Len(held.stack)].snap =>
                      /\ state.db.journal[i].sets = EmptyMap
                      /\ state.db.journal[i].dels = {}
               /\ state.db.journal[i].id <= held.stack[Len(held.stack)].snap

\* a second revert to one snapshot undid changes made after the first
C23_Witness_SecondRevertUndidChanges ==
    /\ held.last.op = "revert"
    /\ held.last.uses = 2
    /\ held.last.changed
    /\ held.writes >= 2

\* the starting blocks configured that are not above a block number
starts_up_to(block_number) ==
    { result[1].vm_configuration[i][1] : i \in DOMAIN result[1].vm_configuration }
        \cap 0..block_number

\* C24: get_vm_class_for_block_number(n) returns the variant configured
\* with the largest starting block <= n, so that each fork block itself
\* runs the newer variant, and raises VMNotFound when no configured starting
\* block is <= n.
C24_VMForBlockNumber ==
    LET r == result[1]
        starts == starts_up_to(r.block_number)
    IN  r.op = "get_vm_class_for_block_number" =>
            IF starts = {} THEN r.vm = VMNotFound
            ELSE \E i \in DOMAIN r.vm_configuration :
                    /\ r.vm_configuration[i][2] = r.vm
                    /\ r.vm_configuration[i][1] \in starts
                    /\ \A s \in starts : s <= r.vm_configuration[i][1]

\* the block at which EIP-150 starts was asked for, in a chain configured
\* with its variants out of order
C24_Witness_ForkBlockItself ==
    /\ result[1].op = "get_vm_class_for_block_number"
    /\ result[1].vm = "EIP150VM"
    /\ result[1].vm_configuration[1] = <<result[1].block_number, "EIP150VM">>
    /\ Len(result[1].vm_configuration) = 3

\* C25: from_genesis populates the accounts of the allocation and computes
\* the state root; a declared state_root that differs from it makes the call
\* fail with ValidationError with no genesis block persisted; with none
\* declared the computed root is the state_root of the genesis header.
C25_FromGenesis ==
    LET r == result[1]
        computed == state.world.state_root
    IN  r.op = "from_genesis" =>
            /\ \A i \in DOMAIN r.genesis_state :
                   LET a == r.genesis_state[i]
                   IN  /\ get_balance(state.world, a.address) = a.balance
                       /\ get_nonce(state.world, a.address) = a.nonce
                       /\ get_code(state.world, a.address) = a.code
                       /\ \A j \in DOMAIN a.storage :
                              get_storage(state.world, a.address, a.storage[j][1]) =
                                  (IF ZeroBytes(a.storage[j][2]) THEN <<>>
                                   ELSE a.storage[j][2])
            /\ DOMAIN computed = { r.genesis_state[i].address : i \in DOMAIN r.genesis_state }
            /\ (r.declared.given /\ r.declared.root # computed) =>
                   /\ r.raised = "ValidationError"
                   /\ state.blocks = <<>>
            /\ ~r.declared.given =>
                   /\ r.raised # "ValidationError"
                   /\ r.header.state_root = computed
            /\ (r.declared.given /\ r.declared.root = computed) =>
                   /\ r.raised # "ValidationError"
                   /\ r.header.state_root = computed
            /\ r.raised = "none" => state.blocks = <<r.header>>

\* a genesis with accounts was refused for the state root it declared
C25_Witness_DeclaredRootDiffers ==
    /\ result[1].op = "from_genesis"
    /\ result[1].raised = "ValidationError"
    /\ Len(result[1].genesis_state) = 2
    /\ result[1].declared.root # BLANK_ROOT_HASH
    /\ state.vms_by_range[1][1] = 0

\* C26: a message is a create if and only if its to is the create sentinel
\* or its create_address is set: exactly those messages are applied as a
\* create, and a message with an ordinary to and no create_address is
\* applied as a call.
C26_IsCreate ==
    pc = "done" =>
        /\ (result[1].applied_by = "apply_create_message") <=>
               (held.to = CREATE_CONTRACT_ADDRESS \/ held.create_address # NoAddress)
        /\ (held.to # CREATE_CONTRACT_ADDRESS /\ held.create_address = NoAddress) =>
               /\ result[1].applied_by = "apply_message"
               /\ result[1].storage_address = held.to

\* a message with an ordinary to and a create_address was applied
C26_Witness_CreateAddressAlone ==
    /\ pc = "done"
    /\ held.to = ADDR_A
    /\ held.create_address = TAKEN_ADDRESS
    /\ result[1].applied_by = "apply_create_message"

\* C27: once a child create frame has completed, the return data of its
\* parent is empty if the child succeeded and the child's output if it
\* failed (until the next child completes).
C27_ReturnDataAfterCreate ==
    \A c \in Computations :
        c.children # <<>> =>
            LET child == c.children[Len(c.children)]
            IN  is_create(child.msg) =>
                    c.return_data = (IF is_success(child) THEN <<>> ELSE output(child))

\* a frame that held the output of a call then created a contract with code
C27_Witness_CreateAfterCallWithOutput ==
    \E c \in Computations :
        /\ Len(c.children) = 2
        /\ ~is_create(c.children[1].msg)
        /\ output(c.children[1]) # <<>>
        /\ is_create(c.children[2].msg)
        /\ is_success(c.children[2])
        /\ output(c.children[2]) # <<>>
        /\ c.return_data = <<>>

\* C28: once a child call frame has completed, the return data of its parent
\* is the child's output, or empty when the child burned its gas; it is that
\* of the child completed last; and every frame that completed, failed or
\* not, is among the children of the frame that applied it, the children
\* standing in the order they were applied.
C28_ReturnDataAndChildrenAfterCall ==
    \A c \in Computations :
        /\ c.children # <<>> =>
               LET child == c.children[Len(c.children)]
               IN  ~is_create(child.msg) =>
                       c.return_data = (IF should_burn_gas(child) THEN <<>>
                                        ELSE output(child))
        /\ \A j \in DOMAIN c.children :
               /\ ghost.parent[c.children[j].fid] = c.fid
               /\ j > 1 => c.children[j - 1].fid < c.children[j].fid
        /\ \A fid \in 1..ghost.nframes :
               (ghost.parent[fid] = c.fid /\ fid \notin Live) =>
                   \E j \in DOMAIN c.children : c.children[j].fid = fid

\* a frame's first call failed and its second returned output
C28_Witness_OutputAfterFailedCall ==
    \E c \in Computations :
        /\ Len(c.children) = 2
        /\ ~is_create(c.children[1].msg)
        /\ should_burn_gas(c.children[1])
        /\ ~is_create(c.children[2].msg)
        /\ is_success(c.children[2])
        /\ output(c.children[2]) # <<>>
        /\ c.return_data = output(c.children[2])

\* the refunds recorded by the frame and by the frames below it that have
\* returned to it through frames that did not fail
refunds_under(root) ==
    LET counts(r) == survives_under(r.fid, root)
        counted == SelectSeq(ghost.refunds, counts)
    IN  SumSeq([i \in DOMAIN counted |-> counted[i].amount])

\* C29: get_gas_refund() of a frame is 0 if the frame ended with an error and
\* otherwise its own refund counter plus get_gas_refund() of each child; so,
\* until the transaction adds its own refunds, it is the sum of the refunds
\* SSTORE recorded in the frame and in those frames below it that did not
\* fail and have no failed frame between them and the frame.
C29_GasRefundOfFrame ==
    pc # "done" =>
        \A c \in Computations :
            /\ is_error(c) => get_gas_refund(c) = 0
            /\ ~is_error(c) =>
                   get_gas_refund(c) =
                       c.gas_refunded +
                       SumSeq([i \in DOMAIN c.children |->
                                   get_gas_refund(c.children[i])])
            /\ get_gas_refund(c) = refunds_under(c.fid)

\* a refund recorded in a frame whose parent failed after the frame returned
C29_Witness_RefundUnderFailedParent ==
    /\ pc # "done"
    /\ \E c \in Computations : \E i \in DOMAIN c.children :
          /\ is_error(c)
          /\ is_success(c.children[i])
          /\ c.children[i].gas_refunded > 0
          /\ get_gas_refund(c) = 0

\* a refund recorded in a child that counts for its parent
C29_Witness_RefundOfChildCounts ==
    /\ pc # "done"
    /\ \E c \in Computations : \E i \in DOMAIN c.children :
          /\ is_success(c)
          /\ is_success(c.children[i])
          /\ c.children[i].gas_refunded > 0
          /\ get_gas_refund(c) >= c.children[i].gas_refunded

\* the gas left in the frame once the opcode's own costs are paid
after_own_costs(mnemonic) ==
    held.gas_remaining - held.extra_gas
        - (IF mnemonic = "CREATE" THEN GAS_CREATE ELSE GAS_CALL_EIP150)

\* C30: under the EIP-150 table CALL, CALLCODE, DELEGATECALL and CREATE that
\* can pay their own costs forward min(requested, r - floor(r / 64)) to the
\* child, r being the gas left after those costs (all of r is requested by
\* CREATE), and the caller is left with the rest, at least floor(r / 64).
C30_AllButOne64th ==
    (pc = "done" /\ result[1].raised = NoError) =>
        LET r == after_own_costs(result[1].mnemonic)
            requested == IF result[1].mnemonic = "CREATE" THEN r ELSE held.gas
        IN  /\ r >= 0
            /\ result[1].child_msg_gas = Min(requested, r - (r \div 64))
            /\ result[1].gas_remaining = r - result[1].child_msg_gas
            /\ result[1].gas_remaining >= r \div 64

\* 64000 left after the costs of a CALL that asks for 100000: 63000 forwarded
C30_Witness_Forwards63000Of64000 ==
    /\ pc = "done"
    /\ result[1].mnemonic = "CALL"
    /\ result[1].raised = NoError
    /\ after_own_costs("CALL") = 64000
    /\ held.gas = 100000
    /\ result[1].child_msg_gas = 63000
    /\ result[1].gas_remaining = 1000

\* what the IDENTITY precompile is to make of the message held
identity_outcome(r) ==
    LET fee == 15 + 3 * ((Len(held.data) + 31) \div 32)
    IN  /\ r.escaped = NoException
        /\ IF held.gas < fee
           THEN /\ r.comp.error = VMError("OutOfGas")
                /\ get_gas_remaining(r.comp) = 0
                /\ output(r.comp) = <<>>
           ELSE /\ is_success(r.comp)
                /\ output(r.comp) = held.data
                /\ get_gas_used(r.comp) = fee

\* C31: a message to the precompile address 0x04 runs IDENTITY: the frame's
\* output is its input data, it uses 15 + 3 * ceil(len(input) / 32) gas, and it
\* fails with OutOfGas when the message carries less gas than that.
C31_IdentityPrecompile ==
    (pc = "done" /\ held.to = force_bytes_to_address(<<4>>)) =>
        identity_outcome(result[1])

\* the same for the computations that run over FRONTIER_PRECOMPILES alone
C31_IdentityPrecompileOfFrontier ==
    (pc = "done" /\ pipeline = "frontier" /\ held.to = force_bytes_to_address(<<4>>)) =>
        identity_outcome(result[1])

\* 33 bytes sent to 0x04 with the gas of two words, over PRECOMPILES
C31_Witness_IdentityOfTwoWords ==
    /\ pc = "done"
    /\ pipeline = "evm"
    /\ result[1].escaped = "NotImplementedError"
    /\ held.to = force_bytes_to_address(<<4>>)
    /\ Len(held.data) = 33
    /\ held.gas = 21

\* the step ended the top frame with OutOfGas
ran_out_of_gas ==
    /\ ghost'.exit.fid = Top.fid
    /\ ghost'.exit.ran.error = VMError("OutOfGas")
    /\ \A i \in DOMAIN frames' : frames'[i].comp.fid # Top.fid

\* nothing was emitted, entered, transferred, registered or refunded by the step
without_effect ==
    /\ ghost'.emitted = ghost.emitted
    /\ log_counter' = log_counter
    /\ ghost'.nframes = ghost.nframes
    /\ ghost'.transfers = ghost.transfers
    /\ ghost'.registered = ghost.registered
    /\ ghost'.refunds = ghost.refunds

\* what SSTORE charges for the write recorded
sstore_charge(s) ==
    IF strip_is_empty(s.current) /\ ~strip_is_empty(s.value) THEN GAS_SSET ELSE GAS_SRESET

\* C32: an opcode whose base gas the frame cannot pay (LOG, CALL, CREATE)
\* or whose handler cannot pay its charge (SSTORE, the gas a CALL forwards)
\* ends the frame with OutOfGas and has no effect: no log entry, no frame
\* entered, no value moved, and for SSTORE the slot as it was when the handler
\* returned and no refund recorded.
C32_ChargedBeforeEffect ==
    [][ Running =>
          /\ (ghost'.last = "LOG" /\ Top.gas_remaining < GAS_LOG) => ran_out_of_gas
          /\ (ghost'.last = "CALL" /\ Top.gas_remaining < GAS_CALL) => ran_out_of_gas
          /\ (ghost'.last = "CREATE" /\ Top.gas_remaining < GAS_CREATE) => ran_out_of_gas
          /\ (ghost'.last = "SSTORE" /\ Top.gas_remaining < sstore_charge(ghost'.sstore))
                 => ran_out_of_gas
          /\ (ghost'.last \in { "LOG", "CALL", "CREATE", "SSTORE" } /\ ran_out_of_gas)
                 => without_effect
          /\ (ghost'.last = "SSTORE" /\ ran_out_of_gas) =>
                 /\ ghost'.sstore.failed
                 /\ ghost'.sstore.stored = ghost'.sstore.current
                 /\ ghost'.sstore.refunded = Top.gas_refunded ]_vars

\* an SSTORE that would have cleared a slot, and earned a refund, could not pay
C32_Witness_UnpaidClear ==
    /\ ghost.last = "SSTORE"
    /\ ghost.sstore.failed
    /\ ~strip_is_empty(ghost.sstore.current)
    /\ strip_is_empty(ghost.sstore.value)
    /\ ghost.sstore.gas_before < GAS_SRESET
    /\ ghost.sstore.stored = ghost.sstore.current

\* the mnemonic of the byte, "" for a byte outside the table
mnemonic_of(byte) ==
    IF byte = 0 THEN "STOP" ELSE IF byte = 160 THEN "LOG0"
    ELSE IF byte = 243 THEN "RETURN" ELSE IF byte = 255 THEN "SUICIDE" ELSE ""

halts(byte) == mnemonic_of(byte) \in { "RETURN", "STOP", "SUICIDE" }

\* a halting opcode is among the opcodes the frame has executed
halted == \E i \in 1..steps : halts(held.code[i])

logs_before(n) == Cardinality({ i \in 1..(n - 1) : mnemonic_of(held.code[i]) = "LOG0" })

\* what the loop leaves of a frame that halted: the halting opcode is the last
\* one executed and the loop has been left, without an error, with the output
\* of RETURN or none, and with the logs of the opcodes before it
halted_cleanly ==
    LET c == frames[1].comp
        last == mnemonic_of(held.code[steps])
    IN  /\ halts(held.code[steps])
        /\ \A i \in 1..(steps - 1) : ~halts(held.code[i])
        /\ pc \in { "returned", "done" }
        /\ is_success(c)
        /\ output(c) = (IF last = "RETURN" THEN <<7>> ELSE <<>>)
        /\ Len(c.log_entries) = logs_before(steps)
        /\ (c.accounts_to_delete # <<>>) = (last = "SUICIDE")

\* C33 as stated: once RETURN, STOP or SELFDESTRUCT has executed in a frame no
\* further opcode of the frame is executed, whatever bytes follow, and the
\* frame ends without an error, with the output of RETURN or, for STOP, none.
C33_HaltEndsFrameWithSuccess ==
    halted =>
        /\ halted_cleanly
        /\ pc = "done" => (is_success(result[1]) /\ output(result[1]) = output(frames[1].comp))

\* C33 amended: once RETURN, STOP or SELFDESTRUCT has executed in a frame no
\* further opcode of the frame is executed, whatever bytes follow, and the
\* computation leaves the loop without an error, with the output of RETURN or,
\* for STOP, none; a call frame ends so, and a create frame ends so unless it
\* cannot pay the deposit of the code it returned.
C33_HaltLeavesLoopWithSuccess ==
    halted =>
        /\ halted_cleanly
        /\ pc = "done" =>
              IF is_create(held)
                 /\ Len(output(frames[1].comp)) * GAS_CODEDEPOSIT > frames[1].comp.gas_remaining
              THEN is_error(result[1])
              ELSE is_success(result[1]) /\ output(result[1]) = output(frames[1].comp)

\* RETURN followed by other bytes in a create frame that cannot pay the deposit
C33_Witness_ReturnThenBytesNoDeposit ==
    /\ pc = "done"
    /\ is_create(held)
    /\ Len(held.code) = 3
    /\ steps = 1
    /\ mnemonic_of(held.code[1]) = "RETURN"
    /\ is_success(frames[1].comp)
    /\ is_error(result[1])

\* the frame has executed a byte that is not in the opcode table
executed_unknown_byte == steps > 0 /\ mnemonic_of(held.code[steps]) = ""

\* the frame ended errored with its gas burned and its output erased
ended_as_invalid_opcode ==
    /\ pc \in { "returned", "done" }
    /\ frames[1].comp.error = VMError("InvalidOpcode")
    /\ pc = "done" =>
          /\ result[1].error = VMError("InvalidOpcode")
          /\ get_gas_remaining(result[1]) = 0
          /\ get_gas_used(result[1]) = held.gas
          /\ output(result[1]) = <<>>

\* C34: a byte that is not in the opcode table is executed as InvalidOpcode:
\* the frame ends errored, all its gas burned, its output erased and the state
\* as it was before the message was applied.
C34_UnknownByteIsInvalidOpcode ==
    executed_unknown_byte =>
        /\ ended_as_invalid_opcode
        /\ pc = "done" => World(state) = World(GenesisState)

\* the same, but for the state after a create message of a contract
C34_UnknownByteIsInvalidOpcodeButNonce ==
    executed_unknown_byte =>
        /\ ended_as_invalid_opcode
        /\ (pc = "done" /\ ~(is_create(held) /\ held.sender # held.origin))
              => World(state) = World(GenesisState)

\* init code of a contract's CREATE that logged and then ran into an unknown byte
C34_Witness_UnknownByteInInitCode ==
    /\ pc = "done"
    /\ is_create(held)
    /\ held.sender # held.origin
    /\ steps = 2
    /\ mnemonic_of(held.code[1]) = "LOG0"
    /\ mnemonic_of(held.code[2]) = ""
    /\ get_nonce(state, held.sender) # get_nonce(GenesisState, held.sender)

\* 3 gas a word and a 512th of the square of the words
cost_of_bytes(n) ==
    LET words == (n + 31) \div 32
    IN  3 * words + (words * words) \div 512

\* C35: an extend_memory(start, size) with size > 0 that the frame can pay
\* charges the cost of the memory rounded up to start + size less the cost
\* of the memory there was, if that is positive, and nothing otherwise; a call
\* with size 0 charges nothing and leaves the memory as it is; so as long as
\* the frame has not run out of gas, what it has paid is the cost of the
\* memory it has.
C35_MemoryGasIsCostOfFinalSize ==
    LET c == frames[1].comp
        l == held.last
        rounded == ((l.start_position + l.size + 31) \div 32) * 32
        delta == cost_of_bytes(rounded) - cost_of_bytes(l.memory_len)
    IN  /\ is_success(c) => c.msg.gas - c.gas_remaining = cost_of_bytes(held.memory_len)
        /\ (l.called /\ l.size = 0) =>
               /\ is_success(c)
               /\ c.gas_remaining = l.gas_remaining
               /\ held.memory_len = l.memory_len
        /\ (l.called /\ l.size > 0 /\ is_success(c)) =>
               /\ l.gas_remaining - c.gas_remaining = (IF delta > 0 THEN delta ELSE 0)
               /\ held.memory_len = (IF rounded > l.memory_len THEN rounded ELSE l.memory_len)
        /\ (l.called /\ l.size > 0 /\ is_error(c)) =>
               /\ delta > l.gas_remaining
               /\ c.error = VMError("OutOfGas")
               /\ held.memory_len = l.memory_len

\* three extensions, the second within the memory there was, the third into
\* the quadratic part of the cost
C35_Witness_ThreeExtensions ==
    /\ steps = 3
    /\ is_success(frames[1].comp)
    /\ held.last.size > 0
    /\ held.last.memory_len = 64
    /\ held.memory_len = 1056
    /\ frames[1].comp.msg.gas - frames[1].comp.gas_remaining = 101

\* the gas the first n transactions of the block used, refunds taken off
RECURSIVE net_gas_used(_)
net_gas_used(n) ==
    IF n = 0 THEN 0 ELSE net_gas_used(n - 1) + (held[n].gas_used - held[n].gas_refund)

\* C36: the gas_used of the receipt of the i-th transaction of a block is the
\* sum over the transactions 1..i of gas_used - gas_refund; the header's
\* gas_used is that of the latest receipt and never decreases; and the
\* block's transactions are the transactions applied, in order.
C36_ReceiptGasIsCumulative ==
    /\ Len(state.receipts) = Len(held)
    /\ Len(state.transactions) = Len(held)
    /\ \A i \in DOMAIN held :
          /\ state.receipts[i].gas_used = net_gas_used(i)
          /\ state.transactions[i] = held[i].transaction
          /\ i > 1 => state.receipts[i].gas_used >= state.receipts[i - 1].gas_used
    /\ state.header.gas_used = net_gas_used(Len(held))

\* three transactions, the second of which earned a refund and the third failed
C36_Witness_ThreeTransactions ==
    /\ Len(state.transactions) = 3
    /\ held[2].gas_refund > 0
    /\ held[3].gas_used = held[3].transaction.gas
    /\ is_error(result[1])
    /\ state.header.gas_used = state.receipts[3].gas_used
    /\ state.receipts[3].gas_used > state.receipts[2].gas_used

\* the computations of frames that are over: every child, and the outermost
\* one once the pipeline holds it
CompletedComputations ==
    UNION { UNION { subtree(c.children[i]) : i \in DOMAIN c.children } : c \in Computations }
    \cup UNION { subtree(result[i]) : i \in DOMAIN result }

\* C37: the remaining gas of the meter of every frame lies between 0 and
\* msg.gas, the gas children handed back included, and for every frame that
\* is over get_gas_used() + get_gas_remaining() is msg.gas.
C37_GasWithinMessageGas ==
    /\ \A c \in Computations :
          /\ 0 <= c.gas_remaining
          /\ c.gas_remaining <= c.msg.gas
    /\ \A c \in CompletedComputations :
          get_gas_used(c) + get_gas_remaining(c) = c.msg.gas

\* a transaction is over whose outermost frame got gas back from a child, and
\* a frame under it failed with gas on its meter
C37_Witness_GasBackFromChild ==
    /\ pc = "done"
    /\ \E i \in DOMAIN result :
          /\ ~is_error(result[i])
          /\ result[i].gas_remaining < result[i].msg.gas
          /\ \E k \in DOMAIN result[i].children :
                LET child == result[i].children[k]
                IN  /\ ~is_error(child)
                    /\ get_gas_remaining(child) > 0
                    /\ get_gas_used(child) > 0
                    /\ result[i].gas_remaining >= get_gas_remaining(child)

\* a frame is over that is errored with gas still on its meter (the error was
\* set without a consume_gas that failed)
C37_Witness_ErroredWithGasOnMeter ==
    \E c \in CompletedComputations :
        is_error(c) /\ c.gas_remaining > 0 /\ get_gas_used(c) = c.msg.gas

\* what the getters of State read for an account
read_account(st, address) ==
    [balance |-> get_balance(st, address),
     nonce |-> get_nonce(st, address),
     code |-> get_code(st, address),
     storage |-> get_storage(st, address, SLOT0)]

\* C38: an operation of State addressed to an account leaves the balance,
\* nonce, code and storage read for every other account as they were, also
\* when the two accounts hold identical code.
C38_OtherAccountsUntouched ==
    [][\A b \in AccountAddresses :
          b # held'.address => read_account(state', b) = read_account(state, b)]_vars

\* C38, the code stored under a shared hash left aside: every operation
\* leaves balance, nonce and storage of every other account as they were, and
\* every operation but delete_code and set_code, which remove and restore
\* what the db holds under the hash, leaves its code as it was.
C38_OtherAccountsUntouchedButCodeDeleted ==
    [][\A b \in AccountAddresses :
          b # held'.address =>
              LET after == read_account(state', b)
                  before == read_account(state, b)
              IN  /\ after.balance = before.balance
                  /\ after.nonce = before.nonce
                  /\ after.storage = before.storage
                  /\ held'.op \notin {"delete_code", "set_code"}
                        => after.code = before.code]_vars

\* delete_code was called for one account and the other account, which has
\* the hash of a non-empty code, reads empty code
C38_Witness_CodeOfOtherAccountGone ==
    /\ held.op = "delete_code"
    /\ \E b \in AccountAddresses \ {held.address} :
          /\ get_account(state, b).code_hash = keccak(CODE_A)
          /\ get_code(state, b) = <<>>
          /\ get_account(state, held.address).code_hash = EMPTY_SHA3

\* one of the recent ancestors of the block with number n included the hash
included_by_recent_ancestor(n, hash) ==
    \E a \in Max(n - (MAX_UNCLE_DEPTH + 1), 0)..(n - 1) :
        \E k \in DOMAIN state[a + 1].uncles : state[a + 1].uncles[k].hash = hash

\* C39: a block validate_uncles has accepted includes no uncle that one of
\* its recent ancestors (the last MAX_UNCLE_DEPTH + 1 canonical blocks)
\* included as an uncle, and lists no uncle twice.
C39_NoUncleIncludedTwice ==
    \A n \in 1..(Len(state) - 1) :
        LET block == state[n + 1]
        IN  \A i \in DOMAIN block.uncles :
                /\ ~included_by_recent_ancestor(n, block.uncles[i].hash)
                /\ \A j \in DOMAIN block.uncles :
                      j # i => block.uncles[j].hash # block.uncles[i].hash

\* C39, what validate_uncles does check: no uncle of an accepted block is one
\* of its recent ancestors, and the parent of each is a recent ancestor other
\* than the block's own parent.
C39_UnclesAreNotAncestors ==
    \A n \in 1..(Len(state) - 1) :
        LET block == state[n + 1]
            recent == { state[a + 1].hash : a \in Max(n - (MAX_UNCLE_DEPTH + 1), 0)..(n - 1) }
        IN  \A i \in DOMAIN block.uncles :
                /\ block.uncles[i].hash \notin recent
                /\ block.uncles[i].parent_hash \in recent
                /\ block.uncles[i].parent_hash # block.parent_hash

\* the block with number 2 included a stale header as its uncle, and the
\* block with number 3 was accepted with that header listed twice
C39_Witness_UncleOfParentListedTwice ==
    /\ Len(state) = 4
    /\ held.outcome = "ok"
    /\ state[3].uncles = <<stale_header(1)>>
    /\ state[4].uncles = <<stale_header(1), stale_header(1)>>

\* C40: the TxPool never sends a transaction to a peer it has received that
\* transaction from, and never sends the same transaction to the same peer
\* more than once.
C40_NeverBackNeverTwice ==
    [][\A e \in BloomEntries :
          /\ state'.sent[e] > state.sent[e] => e \notin state'.received
          /\ state'.sent[e] <= 1]_vars

\* C40, counted in messages: the TxPool never sends a transaction to a peer
\* it has received that transaction from, and never sends a peer a message
\* with a transaction that an earlier message to that peer had.
C40_NeverBackNeverInTwoMessages ==
    [][\A e \in BloomEntries :
          state'.sent[e] > state.sent[e] =>
              /\ e \notin state'.received
              /\ state.sent[e] = 0]_vars

\* a peer sent a message that lists a transaction twice, and another peer was
\* sent the transaction twice
C40_Witness_RepeatedInOneMessage ==
    /\ <<"peer1", 1>> \in state.received
    /\ state.sent[<<"peer2", 1>>] = 2
    /\ state.sent[<<"peer1", 1>>] = 0

====
